---- MODULE Spec2Model ----
(***************************************************************************)
(* A model of the RDS monitoring MCP server: the Context class, the        *)
(* handle_exceptions error-envelope decorator, the                          *)
(* CreateRDSPerformanceReport tool and the rate_limiter decorator.          *)
(*                                                                          *)
(* Python values are modelled as follows.                                   *)
(*   - str: a TLA+ string; a formatted string is the sequence of its        *)
(*     pieces (the template's literal pieces and the substituted            *)
(*     arguments), so that "contains x" is "x is one of the pieces".        *)
(*   - bool / None / the argparse default 'true': the strings "True",       *)
(*     "False", "None" and "'true'"; Truthy gives Python's truth value.     *)
(*   - an exception: a record of its class name, its str() and, for a       *)
(*     botocore ClientError, the content of its response dict.              *)
(*   - the outcome of a call: a record saying whether the call returned     *)
(*     or raised, with the value or the exception.                          *)
(* The exceptions of the model are instances of Exception: the clause       *)
(* `except Exception` of handle_exceptions is the subject, and              *)
(* interpreter-exit signals (BaseException only) are outside it.            *)
(***************************************************************************)
EXTENDS Integers, Sequences, FiniteSets, TLC

VARIABLES
    context,      \* the class attributes of Context
    started,      \* main() has run: Context initialized, tools imported
    tools,        \* the names registered through mcp.tool
    piGets,       \* number of PIConnectionManager.get_connection() calls
    piCreates,    \* number of create_performance_analysis_report requests issued
    calls,        \* number of calls made to functions wrapped by handle_exceptions
    lastCall,     \* what the most recent wrapped call did
    now,          \* time.time()
    ticks,        \* number of clock advances so far
    call_times,   \* rate_limit._call_times: function name -> deque of timestamps
    rlCalls,      \* number of calls made to rate-limited functions
    admittedLog,  \* per function name, the times of all admitted calls (history)
    invoked,      \* per function name, how often the wrapped function ran
    lastRL,       \* what the most recent rate-limited call did
    pc,           \* per task (thread or coroutine), where it is in the wrapper
    loc,          \* per task, the wrapper's local func_name and current_time
    overlap,      \* some call entered the wrapper while another call of the
                  \* same name was between its time read and its append
    _client,      \* per connection manager, the client it holds (None: none)
    made,         \* per client constructed so far, the manager that made it
    closed,       \* per client constructed so far, how often close() ran on it
    connOps,      \* number of calls made to the connection managers
    lastConn,     \* what the most recent connection manager call did
    lpr,          \* the call of list_performance_reports: its locals, the
                  \* requests it has sent and its outcome
    rdl,          \* the call of read_rds_db_logs: its arguments, the request,
                  \* the response and the outcome
    plc,          \* the application of preprocess_log_content: its arguments
                  \* and its result
    walk,         \* the call of handle_paginated_aws_api_call: the caller's
                  \* parameter dict before and after, the pages and the outcome
    lm,           \* the call of list_metrics: the pages of both listings and
                  \* the outcome
    pmr,          \* the call of process_metric_results: its arguments, the
                  \* answers of get_dimension_key_details and the outcome
    cst,          \* the application of convert_string_to_datetime: its
                  \* arguments and its outcome
    cds,          \* the application of convert_datetime_to_string: its
                  \* argument and its result
    reg,          \* the decorations made by register_mcp_primitive_by_context
                  \* and the calls of mcp.tool and mcp.resource they led to
    dbr           \* convert_to_dbrecommendation: the module, the recommendation dict, the result

toolVars == <<context, started, tools, piGets, piCreates, calls, lastCall>>
rateVars == <<now, ticks, call_times, rlCalls, admittedLog, invoked, lastRL>>
taskVars == <<pc, loc, overlap>>
connVars == <<_client, made, closed, connOps, lastConn>>
reportVars == <<lpr>>
logVars == <<rdl, plc>>
pageVars == <<walk, lm>>
vars == <<context, started, tools, piGets, piCreates, calls, lastCall,
          now, ticks, call_times, rlCalls, admittedLog, invoked, lastRL,
          pc, loc, overlap,
          _client, made, closed, connOps, lastConn,
          lpr, rdl, plc, walk, lm,
          pmr, cst, cds, reg, dbr>>

\* What the actions of one part of the model leave alone
moreVars == <<pmr, cst, cds, reg, dbr>>
coreVars == <<toolVars, rateVars, taskVars, connVars, reportVars, logVars, pageVars>>
nonPmrVars == <<coreVars, cst, cds, reg, dbr>>
nonCstVars == <<coreVars, pmr, cds, reg, dbr>>
nonCdsVars == <<coreVars, pmr, cst, reg, dbr>>
nonRegVars == <<coreVars, pmr, cst, cds, dbr>>
nonDbrVars == <<coreVars, pmr, cst, cds, reg>>
otherVars == <<reportVars, logVars, pageVars, moreVars>>
nonToolVars == <<rateVars, taskVars, connVars, otherVars>>
nonRateVars == <<toolVars, taskVars, connVars, otherVars>>
nonTaskVars == <<toolVars, connVars, otherVars>>
nonConnVars == <<toolVars, rateVars, taskVars, otherVars>>
nonReportVars == <<toolVars, rateVars, taskVars, logVars, pageVars, moreVars>>
nonLogVars == <<toolVars, rateVars, taskVars, reportVars, pageVars, moreVars>>
nonPageVars == <<toolVars, rateVars, taskVars, reportVars, logVars, moreVars>>

----------------------------------------------------------------------------
(* Bounds of the model *)

MaxCalls == 2      \* calls to wrapped tool functions in one behaviour
MaxRLCalls == 4    \* calls to rate-limited functions in one behaviour
MaxTicks == 2      \* clock advances in one behaviour
MaxThreadCalls == 4  \* calls made by threads in one behaviour
MaxThreadTicks == 1  \* clock advances while threads run, in one behaviour
MaxConnOps == 5    \* calls to the connection managers in one behaviour
MaxLprRequests == 3  \* pages the service holds for one listing of reports
MaxPageLen == 2    \* reports on one page of the listing
MaxPages == 2      \* pages a paginator yields in one listing
MaxItemsPerPage == 2  \* items on one page of a paginator
MaxMetricResults == 2  \* entries of the metric list given to process_metric_results
MaxWidth == 2      \* elements of one container of a nested structure
MaxDecorations == 3  \* capabilities decorated in one behaviour
MaxLogLen == 5     \* characters of a log file portion
MaxPatternLen == 2  \* characters of a filter pattern

----------------------------------------------------------------------------
(* Python values *)

\* bool(v) for the values a flag can hold
Truthy(v) == v \notin {"False", "None", ""}

NoResponse ==
    [hasError |-> FALSE, hasCode |-> FALSE, hasMessage |-> FALSE,
     Code |-> "", Message |-> ""]

\* An exception that is not a ClientError: its class name and its str()
Exc(type, msg) == [type |-> type, msg |-> msg, response |-> NoResponse]

\* botocore.exceptions.ClientError(error_response, operation_name); the
\* constructor accepts any dict: 'Error', 'Code' and 'Message' may be absent.
ClientError(response) ==
    [type |-> "ClientError", msg |-> "An error occurred", response |-> response]

NoExc == Exc("", "")

NoValue ==
    [tag |-> "none", text |-> <<>>, keys |-> {}, error |-> <<>>,
     error_code |-> "", error_type |-> "", error_message |-> "",
     operation |-> ""]

\* A str result
Text(pieces) == [NoValue EXCEPT !.tag = "text", !.text = pieces]

Return(v) == [kind |-> "return", value |-> v, exc |-> NoExc]
Raise(e) == [kind |-> "raise", value |-> NoValue, exc |-> e]
NoOutcome == [kind |-> "none", value |-> NoValue, exc |-> NoExc]

RECURSIVE FormatFrom(_, _, _)
\* str.format with automatic field numbering, from the k-th argument on:
\* every "{}" of the template takes the next positional argument, and a
\* "{}" with no argument left raises IndexError (ok = FALSE).
FormatFrom(template, args, k) ==
    IF template = <<>>
    THEN [ok |-> TRUE, text |-> <<>>]
    ELSE IF Head(template) = "{}"
         THEN IF k > Len(args)
              THEN [ok |-> FALSE, text |-> <<>>]
              ELSE LET rest == FormatFrom(Tail(template), args, k + 1)
                   IN  [ok |-> rest.ok,
                        text |-> IF rest.ok THEN <<args[k]>> \o rest.text ELSE <<>>]
         ELSE LET rest == FormatFrom(Tail(template), args, k)
              IN  [ok |-> rest.ok,
                   text |-> IF rest.ok THEN <<Head(template)>> \o rest.text ELSE <<>>]

Format(template, args) == FormatFrom(template, args, 1)

\* x in s, for a formatted string s and a substituted value x
Contains(text, x) == \E i \in 1..Len(text) : text[i] = x

----------------------------------------------------------------------------
(* common/constants.py *)

ERROR_AWS_API == <<"AWS API error: ", "{}">>
ERROR_UNEXPECTED == <<"Unexpected error: ", "{}">>
MCP_SERVER_TAG == <<"created_by", "rds-control-plane-mcp-server">>

----------------------------------------------------------------------------
(* context.py *)

\* The class attributes as the class statement sets them
ContextDefaults ==
    [readonly |-> "True", max_items |-> 100, register_resource_as_tool |-> "False"]

\* Context.initialize(readonly, max_items, register_resource_as_tool)
initialize(readonly, max_items, register_resource_as_tool) ==
    [readonly |-> readonly, max_items |-> max_items,
     register_resource_as_tool |-> register_resource_as_tool]

\* Context.readonly_mode()
readonly_mode(ctx) == ctx.readonly

register_resource_as_tool(ctx) == ctx.register_resource_as_tool

----------------------------------------------------------------------------
(* common/decorators.py: handle_exceptions *)

\* json.dumps of the ClientError envelope
AwsErrorEnvelope_swapped(func_name, error_code, error_message) ==
    [tag |-> "json", text |-> <<>>,
     keys |-> {"error", "error_code", "error_message", "operation"},
     error |-> Format(ERROR_AWS_API, <<error_message>>).text,
     error_code |-> error_message,
     error_type |-> "",
     error_message |-> error_code,
     operation |-> func_name]

AwsErrorEnvelope(func_name, error_code, error_message) ==
    [tag |-> "json", text |-> <<>>,
     keys |-> {"error", "error_code", "error_message", "operation"},
     error |-> Format(ERROR_AWS_API, <<error_code>>).text,
     error_code |-> error_code,
     error_type |-> "",
     error_message |-> error_message,
     operation |-> func_name]

\* json.dumps of the general envelope
UnexpectedEnvelope(func_name, error) ==
    [tag |-> "json", text |-> <<>>,
     keys |-> {"error", "error_type", "error_message", "operation"},
     error |-> Format(ERROR_UNEXPECTED, <<error.msg>>).text,
     error_code |-> "",
     error_type |-> error.type,
     error_message |-> error.msg,
     operation |-> func_name]

\* The except clause for a ClientError: error.response['Error']['Code'] and
\* error.response['Error']['Message'] are plain subscripts, evaluated inside
\* the handler, so a missing key raises KeyError out of the wrapper.
OnClientError(func_name, error) ==
    IF ~error.response.hasError
    THEN Raise(Exc("KeyError", "'Error'"))
    ELSE IF ~error.response.hasCode
    THEN Raise(Exc("KeyError", "'Code'"))
    ELSE IF ~error.response.hasMessage
    THEN Raise(Exc("KeyError", "'Message'"))
    ELSE Return(AwsErrorEnvelope(func_name, error.response.Code,
                                 error.response.Message))

\* The except clause for any other exception
OnOtherError_reraise(func_name, error) == Raise(error)

OnOtherError_wrappername(func_name, error) ==
    Return(UnexpectedEnvelope("wrapper", error))

OnOtherError(func_name, error) == Return(UnexpectedEnvelope(func_name, error))

\* wrapper(*args, **kwargs) of handle_exceptions(func): `outcome` is what
\* func did when called (awaited when func is a coroutine function).
handle_exceptions(func_name, is_coroutine, outcome) ==
    IF outcome.kind = "return"
    THEN outcome
    ELSE IF outcome.exc.type = "ClientError"
         THEN OnClientError(func_name, outcome.exc)
         ELSE OnOtherError(func_name, outcome.exc)

----------------------------------------------------------------------------
(* common/utils.py: convert_string_to_datetime *)
(* A datetime is modelled as a day number (the ordinal of the day).        *)

DtReturn(d) == [kind |-> "return", dt |-> d, exc |-> NoExc]
DtRaise(e) == [kind |-> "raise", dt |-> 0, exc |-> e]

\* The date strings tried for start_time and end_time: None, the empty
\* string, two ISO-8601 strings with the Z suffix, a string that holds '-'
\* and is no ISO date, and a digit string too large for the platform's time_t.
StartTimes ==
    {"None", "2025-06-01T00:00:00Z", "2025-06-02T00:00:00Z",
     "99999999999999999999"}
EndTimes == {"", "2025-06-01T00:00:00Z", "not-a-date"}

\* The date strings of the model, by what the library calls of the cascade
\* do with them. A string is given with the day it denotes, 0 when none.
IsoStrings == {"2025-06-01T00:00:00Z", "2025-06-02T00:00:00Z", "2025-06-15T10:30:45", "2025-06-15"}

NonIsoDashStrings == {"not-a-date", "invalid-date-format", "2025-13-45"}

SlashStrings == {"06/15/2025", "13/45/2025"}

DigitStrings == {"1749945600", "99999999999999", "99999999999999999999"}

PlainStrings == {"tomorrow"}

DateStrings == {"None", ""} \cup IsoStrings \cup NonIsoDashStrings \cup SlashStrings \cup DigitStrings \cup PlainStrings

\* date_str.endswith('Z')
EndsWithZ(s) == s \in {"2025-06-01T00:00:00Z", "2025-06-02T00:00:00Z"}

\* 'T' in date_str or '-' in date_str
HasTOrDash(s) == s \in IsoStrings \cup NonIsoDashStrings

\* re.match(r'^\d{4}-\d{2}-\d{2}$', date_str)
MatchesYmd(s) == s \in {"2025-06-15", "2025-13-45"}

\* re.match(r'^\d{1,2}/\d{1,2}/\d{4}$', date_str)
MatchesMdy(s) == s \in SlashStrings

\* date_str.isdigit()
IsDigit(s) == s \in DigitStrings

\* The day a well-formed date string denotes
DayOf(s) ==
    CASE s = "2025-06-01T00:00:00Z" -> 152
      [] s = "2025-06-02T00:00:00Z" -> 153
      [] s \in {"2025-06-15T10:30:45", "2025-06-15", "06/15/2025", "1749945600"} -> 166
      [] OTHER -> 0

\* datetime.fromisoformat(s), datetime.strptime(s, fmt): the datetime, or
\* ValueError
FromFormat(s) ==
    IF DayOf(s) # 0 THEN DtReturn(DayOf(s)) ELSE DtRaise(Exc("ValueError", "Invalid isoformat string"))

\* datetime.fromtimestamp(int(s)): the datetime, ValueError when the year
\* is out of range, OverflowError when the number does not fit time_t
fromtimestamp(s) ==
    CASE s = "99999999999999" -> DtRaise(Exc("ValueError", "year 3170843 is out of range"))
      [] s = "99999999999999999999" -> DtRaise(Exc("OverflowError", "timestamp out of range for platform time_t"))
      [] OTHER -> DtReturn(DayOf(s))

\* `except ValueError as e: raise ValueError(...)`: other exceptions pass
Reraised(outcome) ==
    IF outcome.kind = "raise" /\ outcome.exc.type = "ValueError"
    THEN DtRaise(Exc("ValueError", "Invalid date format"))
    ELSE outcome

\* parse_date_string(default, date_str): the format cascade
parse_date_string(default, date_str) ==
    IF ~Truthy(date_str) THEN DtReturn(default)
    ELSE IF EndsWithZ(date_str) THEN Reraised(FromFormat(date_str))
    ELSE IF HasTOrDash(date_str) THEN Reraised(FromFormat(date_str))
    ELSE IF MatchesYmd(date_str) THEN Reraised(FromFormat(date_str))
    ELSE IF MatchesMdy(date_str) THEN Reraised(FromFormat(date_str))
    ELSE IF IsDigit(date_str) THEN Reraised(fromtimestamp(date_str))
    ELSE DtReturn(default)

\* convert_string_to_datetime(default, date_string): ValueError gives the default
convert_string_to_datetime(default, date_string) ==
    LET parsed == parse_date_string(default, date_string)
    IN  IF parsed.kind = "raise" /\ parsed.exc.type = "ValueError"
        THEN DtReturn(default)
        ELSE parsed

ConvertDefaults == 150..160

NoCst == [called |-> FALSE, default |-> 0, date_string |-> "None", outcome |-> DtReturn(0)]

InitCst == cst = NoCst

\* One application of convert_string_to_datetime
Convert(default, date_string) ==
    cst' = [called |-> TRUE, default |-> default, date_string |-> date_string, outcome |-> convert_string_to_datetime(default, date_string)]

----------------------------------------------------------------------------
(* tools/db_instance/create_rds_performance_report.py *)

REPORT_CREATION_SUCCESS_RESPONSE ==
    <<"Performance analysis report creation has been initiated successfully. The report ID is: ",
      "{}",
      " This process is asynchronous and will take some time to complete. Once generated, you can access the report details using the Performance Insights dashboard or the aws-rds://db-instance/",
      "{}",
      "/performance_report resource. Note: Report generation typically takes a few minutes depending on the time range selected.">>

READONLY_MESSAGE ==
    "You have configured this tool in readonly mode. To make this change you will have to update your configuration."

NoRequest ==
    [ServiceType |-> "", Identifier |-> "", StartTime |-> 0, EndTime |-> 0,
     Tags |-> <<>>]

\* What pi_client.create_performance_analysis_report does
PiReturn(report_id) == [kind |-> "return", report_id |-> report_id, exc |-> NoExc]
PiRaise(e) == [kind |-> "raise", report_id |-> "", exc |-> e]
NoPi == [kind |-> "none", report_id |-> "", exc |-> NoExc]

\* The result of running the tool function's body: its outcome, and what it
\* did on the way (client obtained, request issued).
Ran(outcome, gotClient, called, request) ==
    [outcome |-> outcome, gotClient |-> gotClient, called |-> called,
     request |-> request]

\* if Context.readonly_mode(): ...
ReadonlyGuard_off(ctx) == FALSE

ReadonlyGuard(ctx) == Truthy(readonly_mode(ctx))

\* REPORT_CREATION_SUCCESS_RESPONSE.format(report_id)
SuccessResponse(report_id, dbi_resource_identifier) ==
    Format(REPORT_CREATION_SUCCESS_RESPONSE, <<report_id>>)

\* The body of create_rds_performance_report. `today` is datetime.now();
\* `pi` is what the Performance Insights call does once it is issued.
create_rds_performance_report(ctx, dbi_resource_identifier, start_time, end_time, tags, today, pi) ==
    IF ReadonlyGuard(ctx)
    THEN Ran(Raise(Exc("ValueError", READONLY_MESSAGE)), FALSE, FALSE, NoRequest)
    ELSE
    LET start == convert_string_to_datetime(today - 5, start_time)
        end == convert_string_to_datetime(today - 2, end_time)
    IN  IF start.kind = "raise"
        THEN Ran(Raise(start.exc), FALSE, FALSE, NoRequest)
        ELSE IF end.kind = "raise"
        THEN Ran(Raise(end.exc), FALSE, FALSE, NoRequest)
        ELSE
        LET report_tags == <<MCP_SERVER_TAG>> \o tags
            request == [ServiceType |-> "RDS",
                        Identifier |-> dbi_resource_identifier,
                        StartTime |-> start.dt, EndTime |-> end.dt,
                        Tags |-> report_tags]
        IN  IF pi.kind = "raise"
            THEN Ran(Raise(pi.exc), TRUE, TRUE, request)
            ELSE LET formatted == SuccessResponse(pi.report_id,
                                                  dbi_resource_identifier)
                 IN  IF formatted.ok
                     THEN Ran(Return(Text(formatted.text)), TRUE, TRUE, request)
                     ELSE Ran(Raise(Exc("IndexError",
                                        "Replacement index 1 out of range for positional args tuple")),
                              TRUE, TRUE, request)

\* Importing the tools package runs the module's decorators:
\* @mcp.tool(name='CreateRDSPerformanceReport', ...) has no condition on it.
RegisteredOnImport(ctx) == {"CreateRDSPerformanceReport"}

----------------------------------------------------------------------------
(* Inputs *)

\* args.readonly: the default 'true', --readonly, --no-readonly
ReadonlyArgs == {"'true'", "True", "False"}
MaxItemsArgs == {100}
RegisterArgs == {"False", "True"}

DbiResourceIds == {"db-ABCDEFGHIJKLMNO123456"}
ReportIds == {"pi-report-123456789"}
TagInputs == {<<>>, << <<"Environment", "Production">> >>}
Todays == {160}

FullResponse(code, message) ==
    [hasError |-> TRUE, hasCode |-> TRUE, hasMessage |-> TRUE,
     Code |-> code, Message |-> message]

\* The response dicts a ClientError is built from: complete ones, one with
\* no 'Message', one with an empty 'Error', and the empty dict.
Responses ==
    {FullResponse("AccessDenied", "Access denied"),
     FullResponse("InvalidParameterValue", "Invalid parameter value"),
     [FullResponse("Throttling", "") EXCEPT !.hasMessage = FALSE],
     [FullResponse("", "") EXCEPT !.hasCode = FALSE, !.hasMessage = FALSE],
     NoResponse}

OtherExceptions ==
    {Exc("ValueError", "Test error message"),
     Exc("KeyError", "'AnalysisReportId'"),
     Exc("EndpointConnectionError", "Could not connect to the endpoint URL")}

Exceptions == {ClientError(r) : r \in Responses} \cup OtherExceptions

\* What the Performance Insights call may raise
PiExceptions ==
    {ClientError(FullResponse("AccessDenied", "Access denied")),
     ClientError(NoResponse),
     Exc("EndpointConnectionError", "Could not connect to the endpoint URL")}

FuncOutcomes == {Return(Text(<<"success">>))} \cup {Raise(e) : e \in Exceptions}

PiOutcomes ==
    {PiReturn(id) : id \in ReportIds \cup {"None"}} \cup {PiRaise(e) : e \in PiExceptions}

----------------------------------------------------------------------------
(* The server and its tools *)

NoCall ==
    [op |-> "", is_coroutine |-> FALSE, readonly |-> FALSE, dbi |-> "",
     func |-> NoOutcome, result |-> NoOutcome, pi |-> NoPi,
     gotClient |-> FALSE, called |-> FALSE, request |-> NoRequest]

InitTools ==
    /\ context = ContextDefaults
    /\ started = FALSE
    /\ tools = {}
    /\ piGets = 0
    /\ piCreates = 0
    /\ calls = 0
    /\ lastCall = NoCall

\* main(): parse the flags, Context.initialize, import resources and tools
Main(readonly, max_items, register) ==
    /\ ~started
    /\ started' = TRUE
    /\ context' = initialize(readonly, max_items, register)
    /\ tools' = tools \cup RegisteredOnImport(context')
    /\ UNCHANGED <<piGets, piCreates, calls, lastCall>>

\* One call of the decorated create_rds_performance_report
CallCreateReport(dbi, start_time, end_time, tags, today, pi) ==
    /\ calls < MaxCalls
    /\ LET ran == create_rds_performance_report(context, dbi, start_time,
                                                end_time, tags, today, pi)
           result == handle_exceptions("create_rds_performance_report", TRUE,
                                       ran.outcome)
       IN  /\ piGets' = piGets + (IF ran.gotClient THEN 1 ELSE 0)
           /\ piCreates' = piCreates + (IF ran.called THEN 1 ELSE 0)
           /\ lastCall' = [op |-> "create_rds_performance_report",
                           is_coroutine |-> TRUE,
                           readonly |-> Truthy(context.readonly),
                           dbi |-> dbi,
                           func |-> ran.outcome,
                           result |-> result,
                           pi |-> IF ran.called THEN pi ELSE NoPi,
                           gotClient |-> ran.gotClient,
                           called |-> ran.called,
                           request |-> ran.request]
    /\ calls' = calls + 1
    /\ UNCHANGED <<context, started, tools>>

\* One call of a function decorated with handle_exceptions, synchronous or
\* a coroutine function, that returns or raises
CallWrapped(is_coroutine, outcome) ==
    /\ calls < MaxCalls
    /\ lastCall' = [NoCall EXCEPT !.op = "test_func",
                                  !.is_coroutine = is_coroutine,
                                  !.readonly = Truthy(context.readonly),
                                  !.func = outcome,
                                  !.result = handle_exceptions("test_func",
                                                               is_coroutine,
                                                               outcome)]
    /\ calls' = calls + 1
    /\ UNCHANGED <<context, started, tools, piGets, piCreates>>

DoMain ==
    /\ \E readonly \in ReadonlyArgs, max_items \in MaxItemsArgs,
          register \in RegisterArgs :
          Main(readonly, max_items, register)
    /\ UNCHANGED nonToolVars

DoCallCreateReport ==
    /\ \E dbi \in DbiResourceIds, start_time \in StartTimes,
          end_time \in EndTimes, tags \in TagInputs, today \in Todays,
          pi \in PiOutcomes :
          CallCreateReport(dbi, start_time, end_time, tags, today, pi)
    /\ UNCHANGED nonToolVars

DoCallWrapped ==
    /\ \E is_coroutine \in BOOLEAN, outcome \in FuncOutcomes :
          CallWrapped(is_coroutine, outcome)
    /\ UNCHANGED nonToolVars

----------------------------------------------------------------------------
(* common/decorators/rate_limit.py *)

CALLS_PER_PERIOD_LIMIT == 3
PERIOD == 50

FuncNames == {"func1", "func2"}

\* The clock advances by a second, by just under a period, or by a period
TickSteps == {1, PERIOD - 1, PERIOD}

\* _call_times[key]: a defaultdict read, an absent key reads as an empty deque
Entry(ct, key) == IF key \in DOMAIN ct THEN ct[key] ELSE <<>>

\* func_name = func.__name__
Key_shared(func_name) == "wrapper"

Key(func_name) == func_name

\* current_time - _call_times[func_name][0] >= PERIOD
Expired_strict(current_time, t) == current_time - t > PERIOD

Expired_early(current_time, t) == current_time - t >= PERIOD - 1

Expired(current_time, t) == current_time - t >= PERIOD

RECURSIVE PopExpired(_, _)
\* while _call_times[func_name] and <head expired>: popleft()
PopExpired(q, current_time) ==
    IF q # <<>> /\ Expired(current_time, Head(q))
    THEN PopExpired(Tail(q), current_time)
    ELSE q

\* len(_call_times[func_name]) >= CALLS_PER_PERIOD_LIMIT
AtLimit_off_by_one(q) == Len(q) > CALLS_PER_PERIOD_LIMIT

AtLimit(q) == Len(q) >= CALLS_PER_PERIOD_LIMIT

\* deque(maxlen=CALLS_PER_PERIOD_LIMIT).append: a full deque drops its head
DequeAppend(q, x) ==
    IF Len(q) >= CALLS_PER_PERIOD_LIMIT
    THEN Append(Tail(q), x)
    ELSE Append(q, x)

\* A wrapper that records the rejected call as well
OnRejected_recorded(q, current_time) == DequeAppend(q, current_time)

\* The deque of a rejected call: `raise Exception(...)` comes before
\* `_call_times[func_name].append(current_time)`
OnRejected(q, current_time) == q

\* wrapper(*args, **kwargs) of rate_limiter(func), up to the call of func:
\* the new _call_times and whether the call is admitted
rate_limiter(ct, func_name, current_time) ==
    LET key == Key(func_name)
        q == PopExpired(Entry(ct, key), current_time)
        popped == [k \in DOMAIN ct \cup {key} |-> IF k = key THEN q ELSE ct[k]]
    IN  IF AtLimit(q)
        THEN [call_times |-> [popped EXCEPT ![key] = OnRejected(q, current_time)], admitted |-> FALSE]
        ELSE [call_times |-> [popped EXCEPT ![key] = DequeAppend(q, current_time)],
              admitted |-> TRUE]

\* The calls of func_name still allowed at current_time: the limit less the
\* recorded calls that the expiry loop keeps
Quota(ct, func_name, current_time) ==
    CALLS_PER_PERIOD_LIMIT - Len(PopExpired(Entry(ct, Key(func_name)), current_time))

\* History: how many admitted calls of func_name are less than PERIOD old
Recent(log, func_name, current_time) ==
    Cardinality({i \in 1..Len(log[func_name]) :
                    current_time - log[func_name][i] < PERIOD})

RATE_LIMIT_EXCEEDED == "Rate limit exceeded"

NoRL ==
    [name |-> "", time |-> 0, recentBefore |-> 0, countBefore |-> 0,
     admitted |-> FALSE, ran |-> FALSE, result |-> NoOutcome]

InitRate ==
    /\ now = 0
    /\ ticks = 0
    /\ call_times = <<>>
    /\ rlCalls = 0
    /\ admittedLog = [f \in FuncNames |-> <<>>]
    /\ invoked = [f \in FuncNames |-> 0]
    /\ lastRL = NoRL

\* Time passes: time.time() read by successive calls does not decrease
Tick(d) ==
    /\ ticks < MaxTicks
    /\ ticks' = ticks + 1
    /\ now' = now + d
    /\ UNCHANGED <<call_times, rlCalls, admittedLog, invoked, lastRL>>

\* One call of a rate-limited function; `outcome` is what the wrapped
\* function does if it runs
CallLimited(func_name, outcome) ==
    /\ rlCalls < MaxRLCalls
    /\ rlCalls' = rlCalls + 1
    /\ LET r == rate_limiter(call_times, func_name, now)
       IN  /\ call_times' = r.call_times
           /\ admittedLog' = IF r.admitted
                             THEN [admittedLog EXCEPT ![func_name] = Append(@, now)]
                             ELSE admittedLog
           /\ invoked' = IF r.admitted
                         THEN [invoked EXCEPT ![func_name] = @ + 1]
                         ELSE invoked
           /\ lastRL' = [name |-> func_name, time |-> now,
                         recentBefore |-> Recent(admittedLog, func_name, now),
                         countBefore |-> Len(admittedLog[func_name]),
                         admitted |-> r.admitted,
                         ran |-> r.admitted,
                         result |-> IF r.admitted
                                    THEN outcome
                                    ELSE Raise(Exc("Exception", RATE_LIMIT_EXCEEDED))]
    /\ UNCHANGED <<now, ticks>>

DoTick ==
    /\ \E d \in TickSteps : Tick(d)
    /\ UNCHANGED nonRateVars

DoCallLimited ==
    /\ \E func_name \in FuncNames, outcome \in {Return(Text(<<"success">>)), Raise(Exc("ValueError", "Test error message"))} :
          CallLimited(func_name, outcome)
    /\ UNCHANGED nonRateVars

----------------------------------------------------------------------------
(* common/decorators/rate_limit.py with calls in flight at the same time *)
(* A task is a thread or a coroutine running one call of the wrapper.      *)

Tasks == {"task1", "task2"}

NoLoc == [name |-> "", time |-> 0]

InitTasks ==
    /\ pc = [t \in Tasks |-> "idle"]
    /\ loc = [t \in Tasks |-> NoLoc]
    /\ overlap = FALSE

\* Task u is inside the wrapper for func_name: past current_time = time.time()
\* and before the append or the raise
InWrapper(u, func_name) ==
    pc[u] \in {"test", "head", "pop", "check", "append"} /\ loc[u].name = func_name

\* _call_times with the key present and holding q
WithEntry(ct, key, q) ==
    [k \in DOMAIN ct \cup {key} |-> IF k = key THEN q ELSE ct[k]]

\* Threads: every statement of the wrapper is a step of its own, and another
\* thread may run between any two of them.

\* current_time = time.time(); func_name = func.__name__
ThreadBegin(t, func_name) ==
    /\ pc[t] = "idle"
    /\ rlCalls < MaxThreadCalls
    /\ rlCalls' = rlCalls + 1
    /\ loc' = [loc EXCEPT ![t] = [name |-> func_name, time |-> now]]
    /\ pc' = [pc EXCEPT ![t] = "test"]
    /\ overlap' = (overlap \/ \E u \in Tasks \ {t} : InWrapper(u, func_name))
    /\ UNCHANGED <<now, ticks, call_times, admittedLog, invoked, lastRL>>

\* while _call_times[func_name] ...: the truth value of the deque
ThreadTest(t) ==
    /\ pc[t] = "test"
    /\ LET key == Key(loc[t].name)
           q == Entry(call_times, key)
       IN  /\ call_times' = WithEntry(call_times, key, q)
           /\ pc' = [pc EXCEPT ![t] = IF q # <<>> THEN "head" ELSE "check"]
    /\ UNCHANGED <<now, ticks, rlCalls, admittedLog, invoked, lastRL, loc, overlap>>

\* ... and current_time - _call_times[func_name][0] >= PERIOD: the head is
\* read again; on a deque emptied meanwhile the subscript raises IndexError
ThreadHead(t) ==
    /\ pc[t] = "head"
    /\ LET q == Entry(call_times, Key(loc[t].name))
       IN  /\ pc' = [pc EXCEPT ![t] =
                         IF q = <<>> THEN "idle"
                         ELSE IF Expired(loc[t].time, Head(q)) THEN "pop"
                         ELSE "check"]
           /\ loc' = IF q = <<>> THEN [loc EXCEPT ![t] = NoLoc] ELSE loc
    /\ UNCHANGED <<now, ticks, call_times, rlCalls, admittedLog, invoked, lastRL, overlap>>

\* _call_times[func_name].popleft(): IndexError on an empty deque
ThreadPop(t) ==
    /\ pc[t] = "pop"
    /\ LET key == Key(loc[t].name)
           q == Entry(call_times, key)
       IN  IF q = <<>>
           THEN /\ pc' = [pc EXCEPT ![t] = "idle"]
                /\ loc' = [loc EXCEPT ![t] = NoLoc]
                /\ UNCHANGED call_times
           ELSE /\ pc' = [pc EXCEPT ![t] = "test"]
                /\ call_times' = WithEntry(call_times, key, Tail(q))
                /\ UNCHANGED loc
    /\ UNCHANGED <<now, ticks, rlCalls, admittedLog, invoked, lastRL, overlap>>

\* if len(_call_times[func_name]) >= CALLS_PER_PERIOD_LIMIT: raise
ThreadCheck(t) ==
    /\ pc[t] = "check"
    /\ LET key == Key(loc[t].name)
           q == Entry(call_times, key)
       IN  /\ call_times' = WithEntry(call_times, key, q)
           /\ pc' = [pc EXCEPT ![t] = IF AtLimit(q) THEN "idle" ELSE "append"]
           /\ loc' = IF AtLimit(q) THEN [loc EXCEPT ![t] = NoLoc] ELSE loc
    /\ UNCHANGED <<now, ticks, rlCalls, admittedLog, invoked, lastRL, overlap>>

\* _call_times[func_name].append(current_time), then func is called
ThreadAppend(t) ==
    /\ pc[t] = "append"
    /\ LET key == Key(loc[t].name)
           q == Entry(call_times, key)
       IN  call_times' = WithEntry(call_times, key, DequeAppend(q, loc[t].time))
    /\ admittedLog' = [admittedLog EXCEPT ![loc[t].name] = Append(@, loc[t].time)]
    /\ invoked' = [invoked EXCEPT ![loc[t].name] = @ + 1]
    /\ pc' = [pc EXCEPT ![t] = "func"]
    /\ UNCHANGED <<now, ticks, rlCalls, lastRL, loc, overlap>>

\* The wrapped function returns or raises: the call is over
TaskReturn(t) ==
    /\ pc[t] = "func"
    /\ pc' = [pc EXCEPT ![t] = "idle"]
    /\ loc' = [loc EXCEPT ![t] = NoLoc]
    /\ UNCHANGED <<now, ticks, call_times, rlCalls, admittedLog, invoked, lastRL, overlap>>

\* The event loop: a coroutine runs from its start to its first await without
\* another coroutine running, and the wrapper's only await is `await func(...)`
LoopBegin(t, func_name) ==
    /\ pc[t] = "idle"
    /\ rlCalls < MaxRLCalls
    /\ rlCalls' = rlCalls + 1
    /\ overlap' = (overlap \/ \E u \in Tasks \ {t} : InWrapper(u, func_name))
    /\ LET r == rate_limiter(call_times, func_name, now)
       IN  /\ call_times' = r.call_times
           /\ loc' = [loc EXCEPT ![t] = IF r.admitted
                                        THEN [name |-> func_name, time |-> now]
                                        ELSE NoLoc]
           /\ lastRL' = [name |-> func_name, time |-> now,
                         recentBefore |-> Recent(admittedLog, func_name, now),
                         countBefore |-> Len(admittedLog[func_name]),
                         admitted |-> r.admitted,
                         ran |-> r.admitted,
                         result |-> IF r.admitted
                                    THEN NoOutcome
                                    ELSE Raise(Exc("Exception", RATE_LIMIT_EXCEEDED))]
           /\ admittedLog' = IF r.admitted
                             THEN [admittedLog EXCEPT ![func_name] = Append(@, now)]
                             ELSE admittedLog
           /\ invoked' = IF r.admitted
                         THEN [invoked EXCEPT ![func_name] = @ + 1]
                         ELSE invoked
           /\ pc' = [pc EXCEPT ![t] = IF r.admitted THEN "func" ELSE "idle"]
    /\ UNCHANGED <<now, ticks>>

\* Time passes while calls are in flight
TaskTick(d) ==
    /\ ticks < MaxTicks
    /\ ticks' = ticks + 1
    /\ now' = now + d
    /\ UNCHANGED <<call_times, rlCalls, admittedLog, invoked, lastRL, pc, loc, overlap>>

DoThreadBegin == (\E t \in Tasks, f \in FuncNames : ThreadBegin(t, f)) /\ UNCHANGED nonTaskVars
DoThreadTest == (\E t \in Tasks : ThreadTest(t)) /\ UNCHANGED nonTaskVars
DoThreadHead == (\E t \in Tasks : ThreadHead(t)) /\ UNCHANGED nonTaskVars
DoThreadPop == (\E t \in Tasks : ThreadPop(t)) /\ UNCHANGED nonTaskVars
DoThreadCheck == (\E t \in Tasks : ThreadCheck(t)) /\ UNCHANGED nonTaskVars
DoThreadAppend == (\E t \in Tasks : ThreadAppend(t)) /\ UNCHANGED nonTaskVars
DoTaskReturn == (\E t \in Tasks : TaskReturn(t)) /\ UNCHANGED nonTaskVars
DoLoopBegin == (\E t \in Tasks, f \in FuncNames : LoopBegin(t, f)) /\ UNCHANGED nonTaskVars
DoTaskTick == (\E d \in TickSteps : TaskTick(d)) /\ UNCHANGED nonTaskVars
DoThreadTick == (\E d \in TickSteps : ticks < MaxThreadTicks /\ TaskTick(d)) /\ UNCHANGED nonTaskVars

\* func_name has more than CALLS_PER_PERIOD_LIMIT admitted calls whose call
\* times lie within one period of PERIOD seconds
OverAdmitted(log, func_name) ==
    \E i \in 1..Len(log[func_name]) :
        Cardinality({j \in 1..Len(log[func_name]) :
                        /\ log[func_name][j] >= log[func_name][i]
                        /\ log[func_name][j] - log[func_name][i] < PERIOD})
            > CALLS_PER_PERIOD_LIMIT

----------------------------------------------------------------------------
(* common/connection.py: the connection managers *)
(* A client object is modelled by its identity, the number of the          *)
(* construction that made it (1, 2, ...); None is 0.                       *)

Managers == {"RDSConnectionManager", "CloudwatchConnectionManager", "PIConnectionManager"}

NoClient == 0

NoConn == [op |-> "none", manager |-> "none", held |-> NoClient, result |-> NoClient, madeBefore |-> 0, closesBefore |-> 0]

\* The number of close() calls made so far, on all clients
RECURSIVE Closes(_)
Closes(counts) == IF counts = <<>> THEN 0 ELSE Head(counts) + Closes(Tail(counts))

\* A manager that builds a client on every call
MustConstruct_always(held) == TRUE

\* `if cls._client is None`
MustConstruct(held) == held = NoClient

InitConn ==
    /\ _client = [m \in Managers |-> NoClient]
    /\ made = <<>>
    /\ closed = <<>>
    /\ connOps = 0
    /\ lastConn = NoConn

\* cls.get_connection(): build a client when none is held, return the held one
get_connection(m) ==
    LET held == _client[m]
        construct == MustConstruct(held)
        result == IF construct THEN Len(made) + 1 ELSE held
    IN  /\ connOps < MaxConnOps
        /\ connOps' = connOps + 1
        /\ _client' = [_client EXCEPT ![m] = result]
        /\ made' = IF construct THEN Append(made, m) ELSE made
        /\ closed' = IF construct THEN Append(closed, 0) ELSE closed
        /\ lastConn' = [op |-> "get", manager |-> m, held |-> held, result |-> result, madeBefore |-> Len(made), closesBefore |-> Closes(closed)]

\* cls.close_connection(): close the held client and forget it
close_connection(m) ==
    LET held == _client[m]
    IN  /\ connOps < MaxConnOps
        /\ connOps' = connOps + 1
        /\ _client' = [_client EXCEPT ![m] = NoClient]
        /\ closed' = IF held # NoClient THEN [closed EXCEPT ![held] = @ + 1] ELSE closed
        /\ lastConn' = [op |-> "close", manager |-> m, held |-> held, result |-> NoClient, madeBefore |-> Len(made), closesBefore |-> Closes(closed)]
        /\ UNCHANGED made

DoGetConnection == (\E m \in Managers : get_connection(m)) /\ UNCHANGED nonConnVars

DoCloseConnection == (\E m \in Managers : close_connection(m)) /\ UNCHANGED nonConnVars

----------------------------------------------------------------------------
(* resources/db_instance/list_performance_reports.py *)
(* One call of list_performance_reports; every awaited request to the      *)
(* service is a step. None is the string "None".                            *)

NoToken == "None"

\* The values --max-items is given in the model
LprMaxItems == {0, 1, 3}

LprIdentifiers == {"db-ABCDEFGHIJKLMNO123456", ""}

LprTokens == {"token1", "token2", ""}

\* The first n reports of the instance, each named by its number
AnalysisReports(n) == [i \in 1..n |-> i]

\* What list_performance_analysis_reports answers: it raises, or returns a
\* dict that may or may not hold 'AnalysisReports' and 'NextToken'
LprResponse(raises, hasReports, n, hasToken, token) ==
    [raises |-> raises, hasReports |-> hasReports, reports |-> AnalysisReports(n), hasToken |-> hasToken, token |-> token]

LprResponses ==
    {LprResponse(FALSE, TRUE, n, FALSE, "") : n \in 0..MaxPageLen}
        \cup {LprResponse(FALSE, TRUE, n, TRUE, t) : n \in 0..MaxPageLen, t \in LprTokens}
        \cup {LprResponse(FALSE, FALSE, 0, FALSE, ""), LprResponse(FALSE, FALSE, 0, TRUE, "token1")}
        \cup {LprResponse(TRUE, FALSE, 0, FALSE, "")}

LprError == Exc("ClientError", "An error occurred")

NoLprResult == [kind |-> "none", reports |-> <<>>, count |-> 0, exc |-> NoExc]

\* PerformanceReportList(reports=reports, count=len(reports), ...)
PerformanceReportList(reports) ==
    [kind |-> "return", reports |-> reports, count |-> Len(reports), exc |-> NoExc]

LprRaise(exc) == [kind |-> "raise", reports |-> <<>>, count |-> 0, exc |-> exc]

LprIdle ==
    [pc |-> "idle", dbi_resource_identifier |-> "", max_items |-> 0, reports |-> <<>>, next_token |-> NoToken, requests |-> <<>>, responses |-> <<>>, result |-> NoLprResult]

InitReports == lpr = LprIdle

\* `while True and len(reports) < Context.max_items()`
LoopTest(reports, max_items) == Len(reports) < max_items

\* The loop test, then the return when the loop is left
LprNext(l) ==
    IF LoopTest(l.reports, l.max_items)
    THEN [l EXCEPT !.pc = "request"]
    ELSE [l EXCEPT !.pc = "done", !.result = PerformanceReportList(l.reports)]

\* The call up to its first request
LprCall(dbi_resource_identifier, max_items) ==
    /\ lpr.pc = "idle"
    /\ IF ~Truthy(dbi_resource_identifier)
       THEN /\ lpr' = [lpr EXCEPT !.pc = "done", !.dbi_resource_identifier = dbi_resource_identifier, !.max_items = max_items, !.result = LprRaise(Exc("ValueError", "The DB instance resource identifier must be provided"))]
            /\ UNCHANGED connVars
       ELSE /\ get_connection("PIConnectionManager")
            /\ lpr' = LprNext([lpr EXCEPT !.dbi_resource_identifier = dbi_resource_identifier, !.max_items = max_items])

\* One turn of the loop: the request, the response, the appends, the break
\* or the next loop test
LprTurn(l, response) ==
    LET sent == IF Truthy(l.next_token) THEN l.next_token ELSE NoToken
        asked == [l EXCEPT !.requests = Append(@, sent), !.responses = Append(@, response)]
        got == [asked EXCEPT !.reports = @ \o (IF response.hasReports THEN response.reports ELSE <<>>)]
    IN  IF response.raises
        THEN [asked EXCEPT !.pc = "done", !.result = LprRaise(LprError)]
        ELSE IF ~response.hasToken
             THEN [got EXCEPT !.pc = "done", !.result = PerformanceReportList(got.reports)]
             ELSE LprNext([got EXCEPT !.next_token = response.token])

\* A turn of the loop with a service that gives its last page within
\* MaxLprRequests requests
LprPage(response) ==
    /\ lpr.pc = "request"
    /\ response.hasToken => Len(lpr.requests) + 1 < MaxLprRequests
    /\ lpr' = LprTurn(lpr, response)
    /\ UNCHANGED connVars

\* The last MaxLprRequests entries of a log
Latest(log) == IF Len(log) > MaxLprRequests THEN SubSeq(log, Len(log) - MaxLprRequests + 1, Len(log)) ELSE log

\* A turn of the loop with a service that answers as it likes; the logs of
\* requests and responses keep their latest entries
LprPageOfAny(response) ==
    /\ lpr.pc = "request"
    /\ lpr' = [LprTurn(lpr, response) EXCEPT !.requests = Latest(@), !.responses = Latest(@)]
    /\ UNCHANGED connVars

DoLprCall == (\E i \in LprIdentifiers, n \in LprMaxItems : LprCall(i, n)) /\ UNCHANGED nonReportVars

DoLprPage == (\E r \in LprResponses : LprPage(r)) /\ UNCHANGED nonReportVars

DoLprPageOfAny == (\E r \in LprResponses : LprPageOfAny(r)) /\ UNCHANGED nonReportVars

----------------------------------------------------------------------------
(* tools/db_instance/read_rds_db_logs.py *)
(* A str that is split and searched is the sequence of its characters.     *)
(* An Optional[str] is a record saying whether it is None.                 *)

Chars == {"E", "e", "\n", "\r"}

Str(s) == [isNone |-> FALSE, s |-> s]

None == [isNone |-> TRUE, s |-> <<>>]

\* bool(v) of an Optional[str]
NonEmpty(v) == ~v.isNone /\ v.s # <<>>

\* str.splitlines(): the lines end at "\n", "\r" or "\r\n"; no empty last
\* line after a final line end
RECURSIVE SplitFrom(_, _, _, _)
SplitFrom(s, i, line, lines) ==
    IF i > Len(s) THEN (IF line = <<>> THEN lines ELSE Append(lines, line))
    ELSE IF s[i] = "\r" /\ i < Len(s) /\ s[i + 1] = "\n" THEN SplitFrom(s, i + 2, <<>>, Append(lines, line))
    ELSE IF s[i] \in {"\n", "\r"} THEN SplitFrom(s, i + 1, <<>>, Append(lines, line))
    ELSE SplitFrom(s, i + 1, Append(line, s[i]), lines)

splitlines(s) == SplitFrom(s, 1, <<>>, <<>>)

\* `pattern in line` for two str
In(pattern, line) ==
    \E i \in 1..(Len(line) + 1) : i + Len(pattern) - 1 <= Len(line) /\ SubSeq(line, i, i + Len(pattern) - 1) = pattern

\* A filter that ignores the case of the letters
Keeps_anycase(pattern, line) ==
    LET lower(s) == [k \in 1..Len(s) |-> IF s[k] = "E" THEN "e" ELSE s[k]]
    IN  In(lower(pattern), lower(line))

\* The line is kept by `if pattern in line`
Keeps(pattern, line) == In(pattern, line)

\* '\n'.join(lines)
RECURSIVE join(_)
join(lines) ==
    IF lines = <<>> THEN <<>>
    ELSE IF Len(lines) = 1 THEN lines[1]
    ELSE lines[1] \o <<"\n">> \o join(Tail(lines))

\* The loop over the lines: filtered_lines after the lines from i on
RECURSIVE FilterFrom(_, _, _, _)
FilterFrom(lines, i, pattern, filtered_lines) ==
    IF i > Len(lines) THEN filtered_lines
    ELSE FilterFrom(lines, i + 1, pattern, IF Keeps(pattern, lines[i]) THEN Append(filtered_lines, lines[i]) ELSE filtered_lines)

preprocess_log_content(log_file_content, pattern) ==
    IF ~NonEmpty(pattern) \/ ~NonEmpty(log_file_content)
    THEN log_file_content
    ELSE Str(join(FilterFrom(splitlines(log_file_content.s), 1, pattern.s, <<>>)))

RECURSIVE StrsUpTo(_)
StrsUpTo(n) == IF n = 0 THEN {<<>>} ELSE StrsUpTo(n - 1) \cup {Append(s, c) : s \in {t \in StrsUpTo(n - 1) : Len(t) = n - 1}, c \in Chars}

\* The log file portions and the patterns the filter is applied to
LogFileContents == {Str(s) : s \in StrsUpTo(MaxLogLen)}

Patterns == {None} \cup {Str(s) : s \in StrsUpTo(MaxPatternLen)}

NoPlc == [applied |-> FALSE, log_file_content |-> None, pattern |-> None, result |-> None]

\* One application of preprocess_log_content
Preprocess(log_file_content, pattern) ==
    /\ plc' = [applied |-> TRUE, log_file_content |-> log_file_content, pattern |-> pattern, result |-> preprocess_log_content(log_file_content, pattern)]
    /\ UNCHANGED rdl

\* What download_db_log_file_portion answers: a dict in which each of
\* 'LogFileData', 'Marker', 'NextToken' and 'AdditionalDataPending' is
\* present or absent
LogResponse(hasData, data, hasMarker, marker, hasNextToken, nextToken, hasPending, pending) ==
    [hasLogFileData |-> hasData, LogFileData |-> data, hasMarker |-> hasMarker, Marker |-> marker, hasNextToken |-> hasNextToken, NextToken |-> nextToken, hasAdditionalDataPending |-> hasPending, AdditionalDataPending |-> pending]

NoLogResponse == LogResponse(FALSE, <<>>, FALSE, "", FALSE, "None", FALSE, FALSE)

HandlerLogData == {<<>>, <<"E", "\n", "e">>, <<"e", "\n", "E", "\n">>}

\* The responses of the service (the API answers with 'Marker'), the ones
\* the mocked client of test_read_rds_db_logs.py gives (with 'NextToken'),
\* and the empty dict. A response with more data pending carries a marker.
LogResponses ==
    {LogResponse(TRUE, d, TRUE, mk, FALSE, "None", TRUE, p) : d \in HandlerLogData, mk \in {"1000", "2000"}, p \in BOOLEAN}
        \cup {LogResponse(TRUE, d, FALSE, "", TRUE, "1000", TRUE, p) : d \in HandlerLogData, p \in BOOLEAN}
        \cup {LogResponse(TRUE, d, FALSE, "", TRUE, "None", TRUE, FALSE) : d \in HandlerLogData}
        \cup {NoLogResponse}

\* The marker argument: a str, or None
MarkerArgs == {"0", "500", "None"}

HandlerPatterns == {None, Str(<<"E">>), Str(<<"e">>)}

NumberOfLinesArgs == {100, 10}

NoLogParams == [DBInstanceIdentifier |-> "", LogFileName |-> "", NumberOfLines |-> 0, Marker |-> ""]

NoLogResult == [kind |-> "none", log_content |-> None, next_marker |-> "None", additional_data_pending |-> FALSE]

\* DBLogFileResponse(...), dumped to JSON: the text is modelled by the
\* object it encodes
DBLogFileResponse(log_content, next_marker, additional_data_pending) ==
    [kind |-> "return", log_content |-> log_content, next_marker |-> next_marker, additional_data_pending |-> additional_data_pending]

RdlIdle == [pc |-> "idle", params |-> NoLogParams, response |-> NoLogResponse, result |-> NoLogResult]

InitLogs == rdl = RdlIdle /\ plc = NoPlc

\* response.get('NextToken', None)
NextMarkerOf(response) == IF response.hasNextToken THEN response.NextToken ELSE "None"

\* One call of read_rds_db_logs: the whole body, which has no await
read_rds_db_logs(db_instance_identifier, log_file_name, marker, number_of_lines, pattern, response) ==
    LET marker_value == IF marker # "None" THEN marker ELSE "0"
        params == [DBInstanceIdentifier |-> db_instance_identifier, LogFileName |-> log_file_name, NumberOfLines |-> number_of_lines, Marker |-> marker_value]
        data == IF response.hasLogFileData THEN Str(response.LogFileData) ELSE Str(<<>>)
        pending == IF response.hasAdditionalDataPending THEN response.AdditionalDataPending ELSE FALSE
    IN  /\ rdl.pc = "idle"
        /\ get_connection("RDSConnectionManager")
        /\ rdl' = [pc |-> "done", params |-> params, response |-> response, result |-> DBLogFileResponse(preprocess_log_content(data, pattern), NextMarkerOf(response), pending)]
        /\ UNCHANGED plc

DoReadLogs == (\E mk \in MarkerArgs, n \in NumberOfLinesArgs, p \in HandlerPatterns, r \in LogResponses : read_rds_db_logs("test-db-instance", "error/postgresql.log", mk, n, p, r)) /\ UNCHANGED nonLogVars

DoPreprocess == ~plc.applied /\ (\E c \in LogFileContents, p \in Patterns : Preprocess(c, p)) /\ UNCHANGED <<nonLogVars, connVars>>

----------------------------------------------------------------------------
(* common/utils.py: handle_paginated_aws_api_call *)
(* An item of a page is a record of its raw value and of the number of     *)
(* times format_function has been applied to it.                            *)

RawItems == {"a", "b"}

Item(raw) == [raw |-> raw, formatted |-> 0]

RECURSIVE SeqsUpTo(_, _)
SeqsUpTo(S, n) == IF n = 0 THEN {<<>>} ELSE SeqsUpTo(S, n - 1) \cup {Append(s, x) : s \in {t \in SeqsUpTo(S, n - 1) : Len(t) = n - 1}, x \in S}

\* A page of a response: a dict in which result_key is present or absent
Page(hasKey, items) == [hasKey |-> hasKey, items |-> items]

WalkPages == {Page(TRUE, [i \in 1..Len(s) |-> Item(s[i])]) : s \in SeqsUpTo(RawItems, MaxItemsPerPage)} \cup {Page(FALSE, <<>>)}

\* Context.get_pagination_config()
get_pagination_config(ctx) == [MaxItems |-> ctx.max_items, PageSize |-> 20]

NoConfig == [MaxItems |-> 0, PageSize |-> 0]

\* The caller's operation_parameters: a dict that may already hold
\* 'PaginationConfig'
Params(hasConfig, config) == [Filters |-> "engine", hasPaginationConfig |-> hasConfig, PaginationConfig |-> config]

WalkParams == {Params(FALSE, NoConfig), Params(TRUE, [MaxItems |-> 5, PageSize |-> 5])}

FormatFunctions == {"None", "format_function"}

WalkExceptions == {ClientError(FullResponse("Throttling", "Rate exceeded")), Exc("EndpointConnectionError", "Could not connect to the endpoint URL")}

\* format_function(item)
Formatted(item) == [item EXCEPT !.formatted = @ + 1]

\* An item that went through format_function twice
AppendItem_twice(results, format_function, item) ==
    Append(results, IF format_function # "None" THEN Formatted(Formatted(item)) ELSE item)

\* `if format_function: results.append(format_function(item)) else: results.append(item)`
AppendItem(results, format_function, item) ==
    Append(results, IF format_function # "None" THEN Formatted(item) ELSE item)

\* page.get(result_key, [])
PageItems(page) == IF page.hasKey THEN page.items ELSE <<>>

\* The two for loops: results after item i of page p and all that follow
RECURSIVE WalkFrom(_, _, _, _, _)
WalkFrom(pages, p, i, format_function, results) ==
    IF p > Len(pages) THEN results
    ELSE IF i > Len(PageItems(pages[p])) THEN WalkFrom(pages, p + 1, 1, format_function, results)
    ELSE WalkFrom(pages, p, i + 1, format_function, AppendItem(results, format_function, PageItems(pages[p])[i]))

WalkReturn(results) == [kind |-> "return", results |-> results, exc |-> NoExc]

WalkRaise(exc) == [kind |-> "raise", results |-> <<>>, exc |-> exc]

NoWalkOutcome == [kind |-> "none", results |-> <<>>, exc |-> NoExc]

\* A walker that returns what it has when the page iterator raises
OnPagingError_partial(exc, results) == WalkReturn(results)

\* The loops are in no try statement: what the page iterator raises leaves
\* the function as it is
OnPagingError(exc, results) == WalkRaise(exc)

NoWalk ==
    [called |-> FALSE, before |-> Params(FALSE, NoConfig), after |-> Params(FALSE, NoConfig), paginate |-> Params(FALSE, NoConfig), pages |-> <<>>, fails |-> FALSE, exc |-> NoExc, format_function |-> "None", outcome |-> NoWalkOutcome]

\* One call: the page iterator yields `pages` and then, when `fails`, raises
\* `exc` instead of ending
handle_paginated_aws_api_call(operation_parameters, format_function, pages, fails, exc) ==
    LET after == [operation_parameters EXCEPT !.hasPaginationConfig = TRUE, !.PaginationConfig = get_pagination_config(context)]
        results == WalkFrom(pages, 1, 1, format_function, <<>>)
    IN  /\ walk' = [called |-> TRUE, before |-> operation_parameters, after |-> after, paginate |-> after, pages |-> pages, fails |-> fails, exc |-> IF fails THEN exc ELSE NoExc, format_function |-> format_function, outcome |-> IF fails THEN OnPagingError(exc, results) ELSE WalkReturn(results)]
        /\ UNCHANGED lm

InitWalk == walk = NoWalk

DoWalk == ~walk.called /\ (\E op \in WalkParams, f \in FormatFunctions, pages \in SeqsUpTo(WalkPages, MaxPages), fails \in BOOLEAN, exc \in WalkExceptions : handle_paginated_aws_api_call(op, f, pages, fails, exc)) /\ UNCHANGED <<nonPageVars, connVars>>

----------------------------------------------------------------------------
(* common/list_metrics.py *)

MetricNames == {"CPUUtilization", "FreeableMemory"}

\* A page of list_metrics: a dict in which 'Metrics' is present or absent,
\* modelled by the 'MetricName' of each entry
MetricsPage(hasMetrics, names) == [hasMetrics |-> hasMetrics, names |-> names]

MetricsPages == {MetricsPage(TRUE, s) : s \in SeqsUpTo(MetricNames, MaxItemsPerPage)} \cup {MetricsPage(FALSE, <<>>)}

\* The pages of the listing with RecentlyActive='PT3H'
RecentPages == SeqsUpTo(MetricsPages, 1)

ListMetricItem(metric_name, recently_published_data_points) ==
    [metric_name |-> metric_name, recently_published_data_points |-> recently_published_data_points]

\* page['Metrics'] of some page raises KeyError
MissingMetrics(pages) == \E p \in 1..Len(pages) : ~pages[p].hasMetrics

\* recent_metric_names after the loop over the recently active listing
recent_metric_names(pages) == {pages[p].names[i] : <<p, i>> \in {<<q, j>> \in (1..Len(pages)) \X (1..MaxItemsPerPage + 1) : j <= Len(pages[q].names)}}

\* A listing in which a metric name is listed once
AppendMetric_dedup(metrics, item) ==
    IF \E k \in 1..Len(metrics) : metrics[k].metric_name = item.metric_name THEN metrics ELSE Append(metrics, item)

\* metrics.append(metric_item)
AppendMetric(metrics, item) == Append(metrics, item)

\* The loop over all_metrics_iterator: metrics after entry i of page p and
\* all that follow
RECURSIVE MetricsFrom(_, _, _, _, _)
MetricsFrom(pages, p, i, recent, metrics) ==
    IF p > Len(pages) THEN metrics
    ELSE IF i > Len(pages[p].names) THEN MetricsFrom(pages, p + 1, 1, recent, metrics)
    ELSE MetricsFrom(pages, p, i + 1, recent, AppendMetric(metrics, ListMetricItem(pages[p].names[i], pages[p].names[i] \in recent)))

NoListMetrics ==
    [called |-> FALSE, all |-> <<>>, recent |-> <<>>, outcome |-> [kind |-> "none", metrics |-> <<>>, exc |-> NoExc]]

InitMetrics == lm = NoListMetrics

\* One call of list_metrics: the whole body, which has no await
list_metrics(dimension_name, dimension_value, all, recent) ==
    /\ get_connection("CloudwatchConnectionManager")
    /\ lm' = [called |-> TRUE, all |-> all, recent |-> recent,
              outcome |-> IF MissingMetrics(recent) \/ MissingMetrics(all)
                          THEN [kind |-> "raise", metrics |-> <<>>, exc |-> Exc("KeyError", "'Metrics'")]
                          ELSE [kind |-> "return", metrics |-> MetricsFrom(all, 1, 1, recent_metric_names(recent), <<>>), exc |-> NoExc]]
    /\ UNCHANGED walk

DoListMetrics == ~lm.called /\ (\E all \in SeqsUpTo(MetricsPages, MaxPages), recent \in RecentPages : list_metrics("DBInstanceIdentifier", "test-instance", all, recent)) /\ UNCHANGED nonPageVars

----------------------------------------------------------------------------
(* tools/db_instance/find_slow_queries_and_wait_events.py *)
(* A metric result is modelled by the one entry of its Key.Dimensions: the  *)
(* key "sql-1" and its tokenized value.                                      *)

TokenizedValues == {"SELECT * FROM users", "UPDATE users SET ?"}

FullTexts == {"SELECT * FROM users WHERE id = ?"}

\* What get_dimension_key_details does: it raises, or returns a dict with
\* or without 'Dimensions', which holds the requested key or not
Details(raises, exc, hasDimensions, hasKey, text) ==
    [raises |-> raises, exc |-> exc, hasDimensions |-> hasDimensions, hasKey |-> hasKey, text |-> text]

DetailsExceptions == {ClientError(FullResponse("AccessDenied", "Access denied")), Exc("Exception", "API Error")}

DetailsAnswers ==
    {Details(TRUE, x, FALSE, FALSE, "") : x \in DetailsExceptions}
        \cup {Details(FALSE, NoExc, TRUE, TRUE, t) : t \in FullTexts}
        \cup {Details(FALSE, NoExc, TRUE, FALSE, ""), Details(FALSE, NoExc, FALSE, FALSE, "")}

SqlReturn(value) == [kind |-> "return", value |-> value, exc |-> NoExc]

SqlRaise(exc) == [kind |-> "raise", value |-> "", exc |-> exc]

\* A handler that lets the exception of the call through
OnDetailsError_reraise(exc, dimension_value) == SqlRaise(exc)

\* `except Exception as e: ... return dimension_value`
OnDetailsError(exc, dimension_value) == SqlReturn(dimension_value)

fetch_full_sql_text(dimension_key, dimension_value, answer) ==
    IF answer.raises THEN OnDetailsError(answer.exc, dimension_value)
    ELSE IF answer.hasDimensions THEN SqlReturn(IF answer.hasKey THEN answer.text ELSE dimension_value)
    ELSE SqlReturn(dimension_value)

\* A metric result and the answer its get_dimension_key_details call gets
MetricEntry(value, answer) == [dimension_value |-> value, answer |-> answer]

MetricEntries == {MetricEntry(v, a) : v \in TokenizedValues, a \in DetailsAnswers}

Dimensions == {"db.sql_tokenized", "db.wait_event"}

PmrReturn(results, fetched) == [kind |-> "return", results |-> results, fetched |-> fetched, exc |-> NoExc]

PmrRaise(exc, fetched) == [kind |-> "raise", results |-> <<>>, fetched |-> fetched, exc |-> exc]

\* The loop over metric_list from entry i on: results holds the dimension
\* value of each MetricResult built so far, fetched counts the calls made
RECURSIVE ProcessFrom(_, _, _, _, _, _)
ProcessFrom(metric_list, i, dimension, full_sql_statement, results, fetched) ==
    IF i > Len(metric_list) THEN PmrReturn(results, fetched)
    ELSE IF dimension = "db.sql_tokenized" /\ full_sql_statement
         THEN LET full_text == fetch_full_sql_text("sql-1", metric_list[i].dimension_value, metric_list[i].answer)
              IN  IF full_text.kind = "raise" THEN PmrRaise(full_text.exc, fetched + 1)
                  ELSE ProcessFrom(metric_list, i + 1, dimension, full_sql_statement, Append(results, full_text.value), fetched + 1)
         ELSE ProcessFrom(metric_list, i + 1, dimension, full_sql_statement, Append(results, metric_list[i].dimension_value), fetched)

NoPmr == [called |-> FALSE, metric_list |-> <<>>, dimension |-> "", full_sql_statement |-> FALSE, outcome |-> [kind |-> "none", results |-> <<>>, fetched |-> 0, exc |-> NoExc]]

InitPmr == pmr = NoPmr

\* One call of process_metric_results
process_metric_results(metric_list, dimension, full_sql_statement) ==
    pmr' = [called |-> TRUE, metric_list |-> metric_list, dimension |-> dimension, full_sql_statement |-> full_sql_statement, outcome |-> ProcessFrom(metric_list, 1, dimension, full_sql_statement, <<>>, 0)]

DoProcessMetricResults == ~pmr.called /\ (\E l \in SeqsUpTo(MetricEntries, MaxMetricResults), dim \in Dimensions, full \in BOOLEAN : process_metric_results(l, dim, full)) /\ UNCHANGED nonPmrVars

DoConvert == ~cst.called /\ (\E d \in ConvertDefaults, s \in DateStrings : Convert(d, s)) /\ UNCHANGED nonCstVars

----------------------------------------------------------------------------
(* common/utils.py: convert_datetime_to_string *)
(* A Python object is a record of its type, its value when it is a str or   *)
(* a datetime, and its elements when it is a container; the keys of a dict  *)
(* are strings and are modelled by the position of the value.               *)

Obj(type, value, items) == [t |-> type, v |-> value, items |-> items]

StrObj(s) == Obj("str", s, <<>>)

DatetimeObj(d) == Obj("datetime", d, <<>>)

\* datetime.isoformat()
isoformat(d) ==
    CASE d = "datetime(2025, 6, 15, 10, 30, 45)" -> "2025-06-15T10:30:45"
      [] d = "datetime(2025, 6, 16, 11, 0, 0)" -> "2025-06-16T11:00:00"

Leaves == {StrObj("test"), DatetimeObj("datetime(2025, 6, 15, 10, 30, 45)"), DatetimeObj("datetime(2025, 6, 16, 11, 0, 0)")}

ContainerTypes == {"dict", "list", "tuple"}

ContainersOf(S) == {Obj(t, "", items) : t \in ContainerTypes, items \in SeqsUpTo(S, MaxWidth)}

\* The objects of the model: the leaves, the containers of leaves and the
\* containers of those
Objects == Leaves \cup ContainersOf(Leaves) \cup ContainersOf(Leaves \cup ContainersOf(Leaves))

\* `elif isinstance(obj, dict)`, `elif isinstance(obj, list)`
Walked(type) == type \in {"dict", "list"}

RECURSIVE convert_datetime_to_string(_)
convert_datetime_to_string(obj) ==
    IF obj.t = "datetime" THEN StrObj(isoformat(obj.v))
    ELSE IF Walked(obj.t) THEN Obj(obj.t, obj.v, [i \in 1..Len(obj.items) |-> convert_datetime_to_string(obj.items[i])])
    ELSE obj

NoCds == [called |-> FALSE, obj |-> StrObj(""), result |-> StrObj("")]

InitCds == cds = NoCds

\* One application of convert_datetime_to_string
ConvertObject(obj) == cds' = [called |-> TRUE, obj |-> obj, result |-> convert_datetime_to_string(obj)]

DoConvertObject == ~cds.called /\ (\E obj \in Objects : ConvertObject(obj)) /\ UNCHANGED nonCdsVars

----------------------------------------------------------------------------
(* common/decorators/register_mcp_primitive.py *)

\* A decorated capability: the function and the two parameter dicts
Capability(func, uri, resource_name, tool_name) ==
    [func |-> func, resource_params |-> [uri |-> uri, name |-> resource_name], tool_params |-> [name |-> tool_name]]

Capabilities ==
    {Capability("test_func", "aws-rds://test-resource", "TestResource", "TestTool"),
     Capability("list_performance_reports", "aws-rds://db-instance/{dbi_resource_identifier}/performance_report", "ListPerformanceReports", "ListPerformanceReports")}

\* mcp.tool(**tool_params)(func) and mcp.resource(**resource_params)(func),
\* made by decoration number n
ToolRegistration(n, cap) == [n |-> n, primitive |-> "tool", name |-> cap.tool_params.name, uri |-> "", func |-> cap.func]

ResourceRegistration(n, cap) == [n |-> n, primitive |-> "resource", name |-> cap.resource_params.name, uri |-> cap.resource_params.uri, func |-> cap.func]

\* A decorator that registers the function as both
Registrations_both(as_tool, n, cap) == <<ToolRegistration(n, cap), ResourceRegistration(n, cap)>>

\* decorator(func): the branch on RDSContext.register_resource_as_tool()
Registrations(as_tool, n, cap) ==
    IF Truthy(as_tool) THEN <<ToolRegistration(n, cap)>> ELSE <<ResourceRegistration(n, cap)>>

InitReg == reg = [decorations |-> <<>>, registered |-> <<>>]

\* register_mcp_primitive_by_context(resource_params, tool_params)(func)
register_mcp_primitive_by_context(cap) ==
    LET n == Len(reg.decorations) + 1
        as_tool == register_resource_as_tool(context)
    IN  /\ n <= MaxDecorations
        /\ reg' = [decorations |-> Append(reg.decorations, [cap |-> cap, as_tool |-> as_tool]),
                   registered |-> reg.registered \o Registrations(as_tool, n, cap)]

DoDecorate == (\E cap \in Capabilities : register_mcp_primitive_by_context(cap)) /\ UNCHANGED nonRegVars

----------------------------------------------------------------------------
(* tools/general/describe_rds_recommendations.py and recommendations.py *)

\* The two modules that define extract_metrics, convert_action and
\* convert_to_dbrecommendation: "tools" is tools/general/describe_rds_recommendations.py,
\* "server" is recommendations.py, which server.py imports
RecModules == {"tools", "server"}

MaxActions == 2

SimplifiedMetric(name, statistics_details) == [name |-> name, statistics_details |-> statistics_details]

\* An entry of IssueDetails.PerformanceIssueDetails.Metrics; "None" is a missing key
MetricData == {[Name |-> n, StatisticsDetails |-> s] : n \in {"CPUUtilization"}, s \in {"High CPU usage detected", "None"}}

\* IssueDetails of an action or of a recommendation: absent, or carrying
\* PerformanceIssueDetails with a Metrics list
IssueDetailsValues == {[present |-> FALSE, Metrics |-> <<>>]} \cup {[present |-> TRUE, Metrics |-> m] : m \in SeqsUpTo(MetricData, 1)}

\* An Optional[List[SimplifiedMetric]]
NoMetrics == [isNone |-> TRUE, list |-> <<>>]

SomeMetrics(list) == [isNone |-> FALSE, list |-> list]

\* bool(metrics) of an Optional[List[SimplifiedMetric]]
HasMetrics(metrics) == ~metrics.isNone /\ metrics.list # <<>>

\* The test on one metric entry: `is not None` in tools, truthiness in server
Complete(module, metric_data) ==
    IF module = "tools" THEN metric_data.Name # "None" /\ metric_data.StatisticsDetails # "None"
    ELSE Truthy(metric_data.Name) /\ Truthy(metric_data.StatisticsDetails)

extract_metrics(module, d) ==
    IF d.IssueDetails.present /\ d.IssueDetails.Metrics # <<>>
    THEN LET kept == SelectSeq(d.IssueDetails.Metrics, LAMBDA metric_data : Complete(module, metric_data))
             metrics_list == [i \in 1..Len(kept) |-> SimplifiedMetric(kept[i].Name, kept[i].StatisticsDetails)]
         IN  IF module = "tools" /\ metrics_list = <<>> THEN NoMetrics ELSE SomeMetrics(metrics_list)
    ELSE NoMetrics

\* An action dict of the API response; Title "absent" is a missing key,
\* Description "None" a missing key or None
ActionDict(Title, Description, IssueDetails) == [Title |-> Title, Description |-> Description, IssueDetails |-> IssueDetails]

ActionDicts == {ActionDict(t, desc, i) : t \in {"absent", "", "Test action"}, desc \in {"None", "Test action description"}, i \in IssueDetailsValues}

\* rec.get('RecommendedActions'): absent, or a list of action dicts
RecommendedActionsValues == {[present |-> FALSE, list |-> <<>>]} \cup {[present |-> TRUE, list |-> l] : l \in SeqsUpTo(ActionDicts, MaxActions)}

Recommendations == {[RecommendedActions |-> a, IssueDetails |-> i] : a \in RecommendedActionsValues, i \in IssueDetailsValues}

convert_action(action_dict, relevant_metrics) ==
    [title |-> IF action_dict.Title = "absent" THEN "" ELSE action_dict.Title,
     description |-> action_dict.Description,
     relevant_metrics |-> relevant_metrics]

\* The second argument of convert_action when the action has no metrics of
\* its own: `[]` in tools, the recommendation's metrics in server
Fallback(module, rec) == IF module = "tools" THEN SomeMetrics(<<>>) ELSE extract_metrics(module, rec)

\* The test before `continue`
Skipped(action) == action.title = "" /\ action.description = "None" /\ action.relevant_metrics.isNone

\* The loop over rec['RecommendedActions'] from action i on
RECURSIVE ActionsFrom(_, _, _, _)
ActionsFrom(module, rec, i, recommended_actions) ==
    IF i > Len(rec.RecommendedActions.list) THEN recommended_actions
    ELSE LET action_dict == rec.RecommendedActions.list[i]
             action_metrics == extract_metrics(module, action_dict)
             action == convert_action(action_dict, IF HasMetrics(action_metrics) THEN action_metrics ELSE Fallback(module, rec))
         IN  ActionsFrom(module, rec, i + 1, IF Skipped(action) THEN recommended_actions ELSE Append(recommended_actions, action))

\* recommended_actions of the DBRecommendation: a list in tools, None or a list in server
convert_to_dbrecommendation(module, rec) ==
    IF rec.RecommendedActions.present /\ rec.RecommendedActions.list # <<>>
    THEN [isNone |-> FALSE, recommended_actions |-> ActionsFrom(module, rec, 1, <<>>)]
    ELSE [isNone |-> module = "server", recommended_actions |-> <<>>]

NoDbr == [called |-> FALSE, module |-> "tools", rec |-> [RecommendedActions |-> [present |-> FALSE, list |-> <<>>], IssueDetails |-> [present |-> FALSE, Metrics |-> <<>>]], result |-> [isNone |-> FALSE, recommended_actions |-> <<>>]]

InitDbr == dbr = NoDbr

\* One application of convert_to_dbrecommendation
ConvertRecommendation(module, rec) == dbr' = [called |-> TRUE, module |-> module, rec |-> rec, result |-> convert_to_dbrecommendation(module, rec)]

DoConvertRecommendation == ~dbr.called /\ (\E module \in RecModules, rec \in Recommendations : ConvertRecommendation(module, rec)) /\ UNCHANGED nonDbrVars

----------------------------------------------------------------------------
(* Specifications *)

InitMore == InitPmr /\ InitCst /\ InitCds /\ InitReg /\ InitDbr

Init == InitTools /\ InitRate /\ InitTasks /\ InitConn /\ InitReports /\ InitLogs /\ InitWalk /\ InitMetrics /\ InitMore

Next == DoMain \/ DoCallCreateReport \/ DoCallWrapped

\* The server, its tools and the error envelope
Spec == Init /\ [][Next]_vars

NextRate == DoTick \/ DoCallLimited

\* The rate limiter, one call at a time
SpecRate == Init /\ [][NextRate]_vars

NextThreads ==
    \/ DoThreadBegin \/ DoThreadTest \/ DoThreadHead \/ DoThreadPop
    \/ DoThreadCheck \/ DoThreadAppend \/ DoTaskReturn \/ DoThreadTick

\* The rate limiter called from several threads
SpecThreads == Init /\ [][NextThreads]_vars

NextLoop == DoLoopBegin \/ DoTaskReturn \/ DoTaskTick

\* The rate limiter called from coroutines of one event loop
SpecLoop == Init /\ [][NextLoop]_vars

NextConn == DoGetConnection \/ DoCloseConnection

\* The connection managers
SpecConn == Init /\ [][NextConn]_vars

NextReports == DoLprCall \/ DoLprPage

NextReportsOfAny == DoLprCall \/ DoLprPageOfAny

\* One call of list_performance_reports against a paging service
SpecReports == Init /\ [][NextReports]_vars

\* One call of list_performance_reports against a service that answers as
\* it likes. Every awaited request is answered and the coroutine goes on,
\* so a turn of the loop that can be taken is taken.
SpecReportsFair == Init /\ [][NextReportsOfAny]_vars /\ WF_vars(DoLprPageOfAny)

NextLogs == DoReadLogs

\* One call of read_rds_db_logs
SpecLogs == Init /\ [][NextLogs]_vars

NextFilter == DoPreprocess

\* One application of preprocess_log_content
SpecFilter == Init /\ [][NextFilter]_vars

NextWalk == DoWalk

\* One call of handle_paginated_aws_api_call
SpecWalk == Init /\ [][NextWalk]_vars

NextMetrics == DoListMetrics

\* One call of list_metrics
SpecMetrics == Init /\ [][NextMetrics]_vars

NextSql == DoProcessMetricResults

\* One call of process_metric_results
SpecSql == Init /\ [][NextSql]_vars

NextDates == DoConvert

\* One application of convert_string_to_datetime
SpecDates == Init /\ [][NextDates]_vars

NextObjects == DoConvertObject

\* One application of convert_datetime_to_string
SpecObjects == Init /\ [][NextObjects]_vars

NextRegister == DoMain \/ DoDecorate

\* main() and the decorations of the capabilities
SpecRegister == Init /\ [][NextRegister]_vars

NextRecommendations == DoConvertRecommendation

SpecRecommendations == Init /\ [][NextRecommendations]_vars

----------------------------------------------------------------------------
(* Properties of the readonly guard and the error envelope, under Spec *)

CreateOp == "create_rds_performance_report"

\* C1: while Context is in readonly mode no step obtains a Performance
\* Insights client or issues create_performance_analysis_report, and a call
\* of the CreateRDSPerformanceReport tool function is rejected (the function
\* raises) without having done either.
C1_ReadonlyRejectsBeforeAws ==
    [][Truthy(context.readonly) =>
          /\ piGets' = piGets
          /\ piCreates' = piCreates
          /\ (calls' # calls /\ lastCall'.op = CreateOp) =>
                /\ lastCall'.func.kind = "raise"
                /\ ~lastCall'.gotClient
                /\ ~lastCall'.called
                /\ lastCall'.request = NoRequest]_vars

\* C1 witness: the server was started with the default flag ('true') and the
\* tool was called and rejected.
C1_Witness ==
    /\ started
    /\ context.readonly = "'true'"
    /\ lastCall.op = CreateOp
    /\ lastCall.readonly
    /\ lastCall.func = Raise(Exc("ValueError", READONLY_MESSAGE))
    /\ piCreates = 0

\* C2: in readonly mode a call of CreateRDSPerformanceReport returns (it does
\* not raise) the JSON error envelope with error_type 'ValueError' and
\* operation equal to the tool function's name.
C2_ReadonlyReturnsEnvelope ==
    (lastCall.op = CreateOp /\ lastCall.readonly) =>
        /\ lastCall.result.kind = "return"
        /\ lastCall.result.value.tag = "json"
        /\ lastCall.result.value.keys =
               {"error", "error_type", "error_message", "operation"}
        /\ lastCall.result.value.error_type = "ValueError"
        /\ lastCall.result.value.error_message = READONLY_MESSAGE
        /\ lastCall.result.value.operation = "create_rds_performance_report"

\* C2 witness: a readonly call whose result is the ValueError envelope
C2_Witness ==
    /\ lastCall.op = CreateOp
    /\ lastCall.readonly
    /\ lastCall.result.kind = "return"
    /\ lastCall.result.value.error_type = "ValueError"
    /\ lastCall.result.value.error = <<"Unexpected error: ", READONLY_MESSAGE>>

\* C3: whatever the wrapped function raises, the wrapper of handle_exceptions
\* returns a JSON error envelope and raises nothing itself.
C3_WrapperNeverRaises ==
    (lastCall.op # "" /\ lastCall.func.kind = "raise") =>
        /\ lastCall.result.kind = "return"
        /\ lastCall.result.value.tag = "json"

\* The ClientError of a call carries an AWS error code and message
CarriesCodeAndMessage(error) ==
    /\ error.type = "ClientError"
    /\ error.response.hasError
    /\ error.response.hasCode
    /\ error.response.hasMessage

\* C4: when the wrapped function, synchronous or a coroutine function, raises
\* a ClientError carrying an AWS error code and message, the wrapper returns a
\* JSON object with error_code the AWS code, error_message the AWS message,
\* error 'AWS API error: <code>' and operation the wrapped function's name.
C4_ClientErrorEnvelope ==
    (lastCall.op # "" /\ lastCall.func.kind = "raise"
        /\ CarriesCodeAndMessage(lastCall.func.exc)) =>
        /\ lastCall.result.kind = "return"
        /\ lastCall.result.value.tag = "json"
        /\ lastCall.result.value.keys =
               {"error", "error_code", "error_message", "operation"}
        /\ lastCall.result.value.error_code = lastCall.func.exc.response.Code
        /\ lastCall.result.value.error_message = lastCall.func.exc.response.Message
        /\ lastCall.result.value.error =
               <<"AWS API error: ", lastCall.func.exc.response.Code>>
        /\ lastCall.result.value.operation = lastCall.op

\* C4 witness: a synchronous function raised ClientError AccessDenied
C4_Witness ==
    /\ lastCall.op = "test_func"
    /\ ~lastCall.is_coroutine
    /\ lastCall.func = Raise(ClientError(FullResponse("AccessDenied", "Access denied")))
    /\ lastCall.result.kind = "return"
    /\ lastCall.result.value.error_code = "AccessDenied"

\* C5: when the wrapped function raises an exception other than ClientError,
\* the wrapper returns a JSON object with error 'Unexpected error: <message>',
\* error_type the exception's class name, error_message the exception's
\* message and operation the wrapped function's name.
C5_OtherErrorEnvelope ==
    (lastCall.op # "" /\ lastCall.func.kind = "raise"
        /\ lastCall.func.exc.type # "ClientError") =>
        /\ lastCall.result.kind = "return"
        /\ lastCall.result.value.tag = "json"
        /\ lastCall.result.value.keys =
               {"error", "error_type", "error_message", "operation"}
        /\ lastCall.result.value.error =
               <<"Unexpected error: ", lastCall.func.exc.msg>>
        /\ lastCall.result.value.error_type = lastCall.func.exc.type
        /\ lastCall.result.value.error_message = lastCall.func.exc.msg
        /\ lastCall.result.value.operation = lastCall.op

\* C5 witness: a wrapped function raised ValueError('Test error message')
C5_Witness ==
    /\ lastCall.op = "test_func"
    /\ lastCall.func = Raise(Exc("ValueError", "Test error message"))
    /\ lastCall.result.kind = "return"
    /\ lastCall.result.value.error_type = "ValueError"
    /\ lastCall.result.value.operation = "test_func"

\* C6: when the server is not in readonly mode and the Performance Insights
\* create call returns an AnalysisReportId, CreateRDSPerformanceReport returns
\* the success template filled with the report id and the DB instance
\* resource identifier, a text that contains both.
C6_SuccessTextHasIdAndInstance ==
    (lastCall.op = CreateOp /\ ~lastCall.readonly
        /\ lastCall.pi.kind = "return" /\ lastCall.pi.report_id # "None") =>
        /\ lastCall.result.kind = "return"
        /\ lastCall.result.value.tag = "text"
        /\ lastCall.result.value.text =
               Format(REPORT_CREATION_SUCCESS_RESPONSE,
                      <<lastCall.pi.report_id, lastCall.dbi>>).text
        /\ Contains(lastCall.result.value.text, lastCall.pi.report_id)
        /\ Contains(lastCall.result.value.text, lastCall.dbi)

\* C7: when the server is started with the read-only flag true, the
\* CreateRDSPerformanceReport operation is not registered as an MCP tool.
C7_ReadonlyNotRegistered ==
    (started /\ Truthy(context.readonly)) =>
        "CreateRDSPerformanceReport" \notin tools

----------------------------------------------------------------------------
(* Properties of the rate limiter, under SpecRate *)

\* C8: per function name at most CALLS_PER_PERIOD_LIMIT calls are admitted in
\* any period of PERIOD seconds (any CALLS_PER_PERIOD_LIMIT + 1 admitted calls
\* in a row span at least PERIOD), the wrapped function runs exactly for the
\* admitted calls, and a call made while CALLS_PER_PERIOD_LIMIT admitted calls
\* of that name are each less than PERIOD old raises 'Rate limit exceeded'
\* without running the wrapped function.
C8_AtMostLimitPerPeriod ==
    /\ \A f \in FuncNames :
          /\ invoked[f] = Len(admittedLog[f])
          /\ \A i \in 1..Len(admittedLog[f]) :
                i + CALLS_PER_PERIOD_LIMIT <= Len(admittedLog[f]) =>
                    admittedLog[f][i + CALLS_PER_PERIOD_LIMIT] - admittedLog[f][i]
                        >= PERIOD
    /\ (lastRL.name # "" /\ lastRL.recentBefore >= CALLS_PER_PERIOD_LIMIT) =>
          /\ ~lastRL.admitted
          /\ ~lastRL.ran
          /\ lastRL.result = Raise(Exc("Exception", RATE_LIMIT_EXCEEDED))

\* C8 witness: a call rejected while the three admitted calls are PERIOD - 1 old
C8_Witness ==
    /\ lastRL.name # ""
    /\ lastRL.recentBefore = CALLS_PER_PERIOD_LIMIT
    /\ ~lastRL.admitted
    /\ lastRL.time - admittedLog[lastRL.name][1] = PERIOD - 1
    /\ invoked[lastRL.name] = CALLS_PER_PERIOD_LIMIT

\* C9: recorded calls expire. A call is admitted and runs the wrapped function
\* whenever fewer than CALLS_PER_PERIOD_LIMIT admitted calls of its name are
\* less than PERIOD old (so after 3 admitted calls at t, a call at t + PERIOD
\* or later is admitted), and after a call no recorded call of that name is
\* PERIOD or more older than the call.
C9_ExpiredCallsFreeQuota ==
    lastRL.name # "" =>
        /\ lastRL.recentBefore < CALLS_PER_PERIOD_LIMIT =>
              (lastRL.admitted /\ lastRL.ran /\ lastRL.result.exc.msg # RATE_LIMIT_EXCEEDED)
        /\ \A i \in 1..Len(Entry(call_times, lastRL.name)) :
              lastRL.time - Entry(call_times, lastRL.name)[i] < PERIOD

\* C9 witness: three calls admitted at t, and a fourth admitted at t + PERIOD
C9_Witness ==
    /\ lastRL.name # ""
    /\ lastRL.countBefore = CALLS_PER_PERIOD_LIMIT
    /\ lastRL.recentBefore = 0
    /\ admittedLog[lastRL.name][1] = admittedLog[lastRL.name][CALLS_PER_PERIOD_LIMIT]
    /\ lastRL.time = admittedLog[lastRL.name][1] + PERIOD
    /\ lastRL.admitted
    /\ lastRL.ran

\* C10: a call of one rate-limited function, admitted or rejected, leaves the
\* quota of every function of another name as it was: the calls recorded
\* for it, the number of calls it is still allowed now and later, its
\* admitted calls and its invocations are unchanged.
C10_QuotaPerFunction ==
    [][rlCalls' # rlCalls =>
          \A g \in FuncNames \ {lastRL'.name} :
              /\ Entry(call_times', Key(g)) = Entry(call_times, Key(g))
              /\ \A d \in {0} \cup TickSteps :
                    Quota(call_times', g, now + d) = Quota(call_times, g, now + d)
              /\ admittedLog'[g] = admittedLog[g]
              /\ invoked'[g] = invoked[g]]_vars

\* C10 witness: func2 is admitted while func1 stands at its limit
C10_Witness ==
    /\ lastRL.name = "func2"
    /\ lastRL.admitted
    /\ Len(admittedLog["func1"]) = CALLS_PER_PERIOD_LIMIT
    /\ Quota(call_times, "func1", now) = 0
    /\ Quota(call_times, "func2", now) = CALLS_PER_PERIOD_LIMIT - 1

----------------------------------------------------------------------------
(* Properties of the rate limiter with calls in flight at the same time *)

\* C11: under SpecThreads more than CALLS_PER_PERIOD_LIMIT calls of one name
\* can be admitted within one period (the witness), and this happens only by
\* the race: whenever a name is over-admitted, some call entered the wrapper
\* while another call of that name was between its time read and its append.
C11_OverAdmissionOnlyByRace ==
    (\E f \in FuncNames : OverAdmitted(admittedLog, f)) => overlap

\* C11 witness: two threads, four calls of func1 admitted at the same time
C11_Witness ==
    /\ OverAdmitted(admittedLog, "func1")
    /\ Len(admittedLog["func1"]) = CALLS_PER_PERIOD_LIMIT + 1
    /\ admittedLog["func1"][1] = admittedLog["func1"][CALLS_PER_PERIOD_LIMIT + 1]
    /\ invoked["func1"] = CALLS_PER_PERIOD_LIMIT + 1
    /\ overlap

\* C12: under SpecLoop, with calls in flight at the same time, no name ever
\* has more than CALLS_PER_PERIOD_LIMIT admitted calls within one period, and
\* no call enters the wrapper while another is inside it.
C12_LoopNeverOverAdmits ==
    /\ \A f \in FuncNames : ~OverAdmitted(admittedLog, f)
    /\ ~overlap

\* C12 witness: a call of func1 is rejected at the limit while an admitted
\* call of func1 is still in flight
C12_Witness ==
    /\ \E t \in Tasks : pc[t] = "func" /\ loc[t].name = "func1"
    /\ lastRL.name = "func1"
    /\ ~lastRL.admitted
    /\ lastRL.recentBefore = CALLS_PER_PERIOD_LIMIT
    /\ Len(admittedLog["func1"]) = CALLS_PER_PERIOD_LIMIT

----------------------------------------------------------------------------
(* Properties of the connection managers, under SpecConn *)

\* The clients made by manager m that have not been closed
Open(m) == {c \in 1..Len(made) : made[c] = m /\ closed[c] = 0}

\* C13: each manager holds at most one client; get_connection constructs a
\* client exactly when none is held and otherwise returns the held one;
\* close_connection closes the held client once and clears it, and does
\* nothing when none is held; a client made after a close is a new one.
C13_SingletonClient ==
    /\ \A m \in Managers : Open(m) = IF _client[m] = NoClient THEN {} ELSE {_client[m]}
    /\ \A c \in 1..Len(closed) : closed[c] <= 1
    /\ lastConn.op = "get" =>
          /\ lastConn.result # NoClient
          /\ _client[lastConn.manager] = lastConn.result
          /\ (Len(made) = lastConn.madeBefore + 1) <=> (lastConn.held = NoClient)
          /\ Len(made) \in {lastConn.madeBefore, lastConn.madeBefore + 1}
          /\ lastConn.held # NoClient => lastConn.result = lastConn.held
          /\ lastConn.held = NoClient => lastConn.result > lastConn.madeBefore
          /\ Closes(closed) = lastConn.closesBefore
    /\ lastConn.op = "close" =>
          /\ _client[lastConn.manager] = NoClient
          /\ Len(made) = lastConn.madeBefore
          /\ lastConn.held # NoClient =>
                closed[lastConn.held] = 1 /\ Closes(closed) = lastConn.closesBefore + 1
          /\ lastConn.held = NoClient => Closes(closed) = lastConn.closesBefore

\* A manager gets a client, reuses it, closes it, and gets a second client
\* after the close: the second client differs from the closed first one.
C13_Witness ==
    /\ lastConn.op = "get"
    /\ lastConn.manager = "RDSConnectionManager"
    /\ lastConn.held = NoClient
    /\ lastConn.result = 2
    /\ made = <<"RDSConnectionManager", "RDSConnectionManager">>
    /\ closed = <<1, 0>>
    /\ connOps = 4

----------------------------------------------------------------------------
(* Properties of list_performance_reports, under SpecReports *)

\* C14: a call of ListPerformanceReports that returns never returns more
\* reports than max-items, whatever the sizes of the pages.
C14_CountWithinMaxItems ==
    lpr.result.kind = "return" => lpr.result.count <= lpr.max_items

----------------------------------------------------------------------------
(* Properties of read_rds_db_logs, under SpecLogs *)

\* The response carries a marker to continue from
CarriesMarker(response) ==
    \/ response.hasMarker
    \/ response.hasNextToken /\ response.NextToken # "None"

ContinuationMarker(response) ==
    IF response.hasMarker THEN response.Marker ELSE response.NextToken

\* C15: the next_marker of the result is the continuation marker of the
\* download response whenever the response carries one, and it is None
\* only when no more data is pending.
C15_NextMarkerIsContinuation ==
    rdl.result.kind = "return" =>
        /\ CarriesMarker(rdl.response) => rdl.result.next_marker = ContinuationMarker(rdl.response)
        /\ rdl.result.next_marker = "None" => ~rdl.result.additional_data_pending

----------------------------------------------------------------------------
(* Properties of preprocess_log_content, under SpecFilter *)

\* The text has no line end other than single "\n" between two lines
SingleNewlines(s) ==
    /\ \A i \in 1..Len(s) : s[i] # "\r"
    /\ \A i \in 1..Len(s) : s[i] = "\n" => 1 < i /\ i < Len(s) /\ s[i + 1] # "\n"

\* C20: with a non-empty pattern the filter returns exactly the lines of
\* the input that contain the pattern, case-sensitively, in their order,
\* joined by single newlines, and the empty string when no line matches.
C20_FilterKeepsMatchingLines ==
    plc.applied /\ NonEmpty(plc.pattern) =>
        LET lines == splitlines(plc.log_file_content.s)
            matching == SelectSeq(lines, LAMBDA l : In(plc.pattern.s, l))
        IN  /\ ~plc.result.isNone
            /\ splitlines(plc.result.s) = matching
            /\ SingleNewlines(plc.result.s)
            /\ matching = <<>> => plc.result.s = <<>>

\* A log of three lines, the second one differing from the pattern only in
\* case: the first and the third line are returned, joined by one newline.
C20_Witness ==
    /\ plc.applied
    /\ plc.log_file_content = Str(<<"E", "\n", "e", "\r", "E">>)
    /\ plc.pattern = Str(<<"E">>)
    /\ plc.result = Str(<<"E", "\n", "E">>)

----------------------------------------------------------------------------
(* Properties of handle_paginated_aws_api_call, under SpecWalk *)

\* The number of items on the pages before page p
RECURSIVE ItemsBefore(_, _)
ItemsBefore(pages, p) ==
    IF p <= 1 THEN 0 ELSE ItemsBefore(pages, p - 1) + (IF pages[p - 1].hasKey THEN Len(pages[p - 1].items) ELSE 0)

\* C16: a call that returns gives the items of all pages, page after page
\* and in the order of each page, each with the transform applied exactly
\* once when one is given (and not at all otherwise); the length of the
\* result is the sum of the item counts of the pages.
C16_ConcatenatesPagesInOrder ==
    walk.called /\ walk.outcome.kind = "return" =>
        LET pages == walk.pages
            results == walk.outcome.results
            applied == IF walk.format_function = "None" THEN 0 ELSE 1
        IN  /\ Len(results) = ItemsBefore(pages, Len(pages) + 1)
            /\ \A p \in 1..Len(pages) : pages[p].hasKey =>
                  \A i \in 1..Len(pages[p].items) :
                      LET k == ItemsBefore(pages, p) + i
                      IN  /\ k <= Len(results)
                          /\ results[k].raw = pages[p].items[i].raw
                          /\ results[k].formatted = applied

\* Two pages of two items each, walked with a transform
C16_Witness ==
    /\ walk.called
    /\ walk.format_function = "format_function"
    /\ walk.pages = <<Page(TRUE, <<Item("a"), Item("b")>>), Page(TRUE, <<Item("b"), Item("a")>>)>>
    /\ walk.outcome = WalkReturn(<<Formatted(Item("a")), Formatted(Item("b")), Formatted(Item("b")), Formatted(Item("a"))>>)

\* C17: a call leaves the caller's parameter dict as it was.
C17_ParamsUnchanged ==
    walk.called => walk.after = walk.before

\* C18: when the page iterator raises, on the first page or on a later
\* one, the call raises that same exception and returns no list.
C18_PagingErrorPropagates ==
    walk.called /\ walk.fails =>
        /\ walk.outcome.kind = "raise"
        /\ walk.outcome.exc = walk.exc
        /\ walk.outcome.results = <<>>

\* The iterator raises after a first page that had items
C18_Witness ==
    /\ walk.called
    /\ walk.fails
    /\ walk.pages = <<Page(TRUE, <<Item("a"), Item("b")>>)>>
    /\ walk.outcome = WalkRaise(ClientError(FullResponse("Throttling", "Rate exceeded")))

----------------------------------------------------------------------------
(* Properties of list_metrics, under SpecMetrics *)

\* The number of entries on the pages before page p
RECURSIVE EntriesBefore(_, _)
EntriesBefore(pages, p) ==
    IF p <= 1 THEN 0 ELSE EntriesBefore(pages, p - 1) + Len(pages[p - 1].names)

\* C19: a call that returns gives one item for each entry of each page of
\* the unfiltered listing, in the order of the listing; the length of the
\* result is the sum of the entry counts of the pages, so a metric name
\* listed twice is returned twice.
C19_OneItemPerMetricEntry ==
    lm.called /\ lm.outcome.kind = "return" =>
        LET pages == lm.all
            metrics == lm.outcome.metrics
        IN  /\ Len(metrics) = EntriesBefore(pages, Len(pages) + 1)
            /\ \A p \in 1..Len(pages) : \A i \in 1..Len(pages[p].names) :
                  LET k == EntriesBefore(pages, p) + i
                  IN  k <= Len(metrics) /\ metrics[k].metric_name = pages[p].names[i]

\* The same metric name on two pages: it is returned twice
C19_Witness ==
    /\ lm.called
    /\ lm.all = <<MetricsPage(TRUE, <<"CPUUtilization", "FreeableMemory">>), MetricsPage(TRUE, <<"CPUUtilization">>)>>
    /\ lm.recent = <<MetricsPage(TRUE, <<"CPUUtilization">>)>>
    /\ lm.outcome.kind = "return"
    /\ lm.outcome.metrics = <<ListMetricItem("CPUUtilization", TRUE), ListMetricItem("FreeableMemory", FALSE), ListMetricItem("CPUUtilization", TRUE)>>

----------------------------------------------------------------------------
(* Properties of fetch_full_sql_text, under SpecSql *)

----------------------------------------------------------------------------
(* Properties of convert_string_to_datetime, under SpecDates *)

\* C22: the function never raises; it returns the default for None, for
\* the empty string and for every string that denotes no date, and the
\* parsed datetime for every other string.
C22_DefaultInsteadOfRaise ==
    cst.called =>
        /\ cst.outcome.kind = "return"
        /\ cst.outcome.dt = IF DayOf(cst.date_string) # 0 THEN DayOf(cst.date_string) ELSE cst.default

----------------------------------------------------------------------------
(* Properties of convert_datetime_to_string, under SpecObjects *)

\* The structure with every datetime in it replaced by its ISO-8601 string
RECURSIVE Replaced(_)
Replaced(obj) ==
    IF obj.t = "datetime" THEN StrObj(isoformat(obj.v))
    ELSE Obj(obj.t, obj.v, [i \in 1..Len(obj.items) |-> Replaced(obj.items[i])])

\* C23: the result has the shape of the argument, with every datetime
\* replaced by its ISO-8601 string and every other value unchanged; an
\* argument without datetimes is returned equal, and converting the result
\* again changes nothing.
C23_EveryDatetimeReplaced ==
    cds.called =>
        /\ cds.result = Replaced(cds.obj)
        /\ Replaced(cds.obj) = cds.obj => cds.result = cds.obj
        /\ convert_datetime_to_string(cds.result) = cds.result

----------------------------------------------------------------------------
(* Properties of register_mcp_primitive_by_context, under SpecRegister *)

\* The registrations that decoration number n led to
RegisteredBy(n) == {i \in 1..Len(reg.registered) : reg.registered[i].n = n}

\* C24: every decoration led to exactly one registration: of a tool with
\* the tool parameters when register_resource_as_tool was true, of a
\* resource with the resource parameters otherwise.
C24_RegisteredOnceByContext ==
    \A n \in 1..Len(reg.decorations) :
        LET dec == reg.decorations[n]
        IN  /\ Cardinality(RegisteredBy(n)) = 1
            /\ \A i \in RegisteredBy(n) :
                  reg.registered[i] = IF dec.as_tool = "True" THEN ToolRegistration(n, dec.cap) ELSE ResourceRegistration(n, dec.cap)

\* One capability decorated before main() ran (a resource, by the default
\* of the context) and again after main() ran with the flag set (a tool)
C24_Witness ==
    /\ started
    /\ Len(reg.decorations) = 2
    /\ reg.decorations[1].as_tool = "False"
    /\ reg.decorations[2].as_tool = "True"
    /\ reg.registered[1].primitive = "resource"
    /\ reg.registered[2].primitive = "tool"
    /\ reg.registered[2].name = "TestTool"

\* An action dict with an empty or missing title, no description and no
\* metrics, in a recommendation from which the module takes no metrics for it
EmptyAction(module, rec, action_dict) ==
    /\ action_dict.Title \in {"absent", ""}
    /\ action_dict.Description = "None"
    /\ ~HasMetrics(extract_metrics(module, action_dict))
    /\ module = "server" => ~HasMetrics(extract_metrics(module, rec))

\* C25: convert_to_dbrecommendation omits every recommended action whose
\* title is empty and whose description and relevant metrics are absent: the
\* actions of the result are as many as the actions of the recommendation
\* that are not empty.
C25_EmptyActionsOmitted ==
    dbr.called =>
        Len(dbr.result.recommended_actions) = Cardinality({i \in 1..Len(dbr.rec.RecommendedActions.list) : ~EmptyAction(dbr.module, dbr.rec, dbr.rec.RecommendedActions.list[i])})

----------------------------------------------------------------------------
(* Further properties of CreateRDSPerformanceReport, under Spec *)

\* C26: CreateRDSPerformanceReport returns an error envelope only if no
\* performance analysis report was created: whenever the
\* create_performance_analysis_report call has succeeded, the tool's result
\* is the success confirmation text, never an error.
C26_ErrorOnlyIfNoReport ==
    (lastCall.op = CreateOp /\ lastCall.called /\ lastCall.pi.kind = "return") =>
        /\ lastCall.result.kind = "return"
        /\ lastCall.result.value.tag = "text"

\* C27: in every create_performance_analysis_report request issued by
\* CreateRDSPerformanceReport, StartTime is strictly earlier than EndTime,
\* whichever of start_time and end_time the caller supplied, omitted or
\* supplied in an unparseable form.
C27_StartBeforeEnd ==
    (lastCall.op = CreateOp /\ lastCall.called) =>
        lastCall.request.StartTime < lastCall.request.EndTime

----------------------------------------------------------------------------
(* Frame of a rejected call, under SpecRate *)

\* C28: a rejected (rate-limited) call leaves the rate limiter's recorded
\* calls unchanged: no timestamp is recorded or dropped for any function,
\* so the calls every function is still allowed now and at any later time,
\* the admitted calls and the invocations are as before the rejection.
C28_RejectionRecordsNothing ==
    [][(rlCalls' # rlCalls /\ ~lastRL'.admitted) =>
          /\ call_times' = call_times
          /\ \A g \in FuncNames, d \in {0} \cup TickSteps :
                Quota(call_times', g, now + d) = Quota(call_times, g, now + d)
          /\ admittedLog' = admittedLog
          /\ invoked' = invoked]_vars

\* C28 witness: a call rejected one second after three admitted calls; the
\* three timestamps are still the recorded ones
C28_Witness ==
    /\ lastRL.name # ""
    /\ ~lastRL.admitted
    /\ lastRL.result = Raise(Exc("Exception", RATE_LIMIT_EXCEEDED))
    /\ lastRL.time = admittedLog[lastRL.name][1] + 1
    /\ Entry(call_times, Key(lastRL.name)) = admittedLog[lastRL.name]
    /\ Len(admittedLog[lastRL.name]) = CALLS_PER_PERIOD_LIMIT

----------------------------------------------------------------------------
(* Termination of list_performance_reports, under SpecReportsFair *)

\* C29: the pagination loop of ListPerformanceReports terminates for every
\* sequence of service responses: a call that is in its loop returns or
\* raises after finitely many requests, also when the responses carry a
\* NextToken together with an empty or missing report list.
C29_LoopTerminates == (lpr.pc = "request") ~> (lpr.pc = "done")

----------------------------------------------------------------------------
(* The requests of one list_performance_reports call, under SpecReports *)

\* C30: within one ListPerformanceReports call, every request after the
\* first carries the NextToken returned by the immediately preceding
\* response (so that each request asks for the page after the one before).
C30_RequestCarriesPrecedingToken ==
    \A i \in 2..Len(lpr.requests) :
        /\ lpr.responses[i - 1].hasToken
        /\ lpr.requests[i] = lpr.responses[i - 1].token

============================================================================
